---- MODULE Spec2Model ----
(***************************************************************************)
(* Model of the route-matching and middleware-dispatch engine of the       *)
(* NinoTS core: Router (pathToRegex, matchPath, findRoute, addRoute) and   *)
(* NinoApp (use, onError, handleRequest, executeMiddlewareChain,           *)
(* handleNotFound, handleError), with Context.status / Context.json.       *)
(*                                                                         *)
(* Strings are sequences of one-character strings, so that the pattern     *)
(* compiler and the regular-expression matcher work on characters as the   *)
(* code does.  User code (middleware, handlers, the custom error handler)  *)
(* is nondeterministic: every invocation picks what it does.  A middleware *)
(* awaits every continuation call it makes.                                *)
(***************************************************************************)
EXTENDS Integers, Sequences, FiniteSets, TLC

\* ------------------------------------------------------------------ bounds
\* longest enumerated pattern / path (characters)
MaxPatLen == 3
MaxPathLen == 3

\* ---------------------------------------------------------------- alphabet
\* characters the enumerated patterns are built from: "/" and two ordinary
\* characters, the two pattern operators ":" and "*", and "." (ordinary in a
\* pattern, an operator in a regular expression)
PatChars == {"/", "a", "b", ":", "*", "."}
\* characters the enumerated request paths are built from
PathChars == {"/", "a", "b", "."}

RECURSIVE SeqsUpTo(_, _)
SeqsUpTo(S, n) ==
    IF n = 0 THEN {<<>>}
    ELSE LET shorter == SeqsUpTo(S, n - 1)
         IN  shorter \cup {Append(s, c) : s \in shorter, c \in S}

\* the examples of the documentation, character by character
PatUsersId == <<"/","u","s","e","r","s","/",":","i","d">>
PatUsersPosts ==
    <<"/","u","s","e","r","s","/",":","i","d","/","p","o","s","t","s","/",":","p","o","s","t","I","d">>
PatFiles == <<"/","f","i","l","e","s","/","*">>
PathUsers == <<"/","u","s","e","r","s">>
PathUsers1Extra == <<"/","u","s","e","r","s","/","1","/","e","x","t","r","a">>
PathUsers42 == <<"/","u","s","e","r","s","/","4","2">>
PathUsersPosts == <<"/","u","s","e","r","s","/","4","2","/","p","o","s","t","s","/","7">>
PathFilesDeep == <<"/","f","i","l","e","s","/","a","/","b","/","c",".","p","n","g">>
\* a pattern that uses one parameter name twice, and a path it matches
PatSameName == <<"/",":","a","/",":","a">>
PathTwoSegments == <<"/","a","/","b">>
\* a one-segment pattern with a character that is an operator in a regular
\* expression
PatDot == <<"/","a",".","b">>

ExamplePatterns == {PatUsersId, PatUsersPosts, PatFiles, PatSameName, PatDot}
ExamplePaths ==
    {PathUsers, PathUsers1Extra, PathUsers42, PathUsersPosts, PathFilesDeep,
     PathTwoSegments}

Patterns == SeqsUpTo(PatChars, MaxPatLen) \cup ExamplePatterns
Paths == SeqsUpTo(PathChars, MaxPathLen) \cup ExamplePaths

\* ------------------------------------------------- regular expressions
\* A regular expression source is a sequence of fragments: "^", "$", the
\* group "([^/]+)", the wildcard ".*", and single characters, of which "."
\* is the any-character atom and every other one matches itself.
GroupSrc == "([^/]+)"
StarSrc == ".*"

\* number of consecutive characters of s from position j on that are not "/"
RECURSIVE NonSlashRun(_, _)
NonSlashRun(s, j) ==
    IF j > Len(s) \/ s[j] = "/" THEN 0 ELSE 1 + NonSlashRun(s, j + 1)

Fail == [ok |-> FALSE]

\* RegExp execution (backtracking, greedy quantifiers): match re from its
\* i-th fragment against s from position j; the captures of the first
\* successful alternative, in group order.
RECURSIVE RegexExec(_, _, _, _), RegexRepeat(_, _, _, _, _, _, _)
RegexExec(re, i, s, j) ==
    IF i > Len(re) THEN [ok |-> TRUE, groups |-> <<>>]
    ELSE CASE re[i] = "^" -> IF j = 1 THEN RegexExec(re, i + 1, s, j) ELSE Fail
           [] re[i] = "$" -> IF j = Len(s) + 1 THEN RegexExec(re, i + 1, s, j) ELSE Fail
           [] re[i] = GroupSrc ->
                RegexRepeat(re, i, s, j, NonSlashRun(s, j), 1, TRUE)
           [] re[i] = StarSrc ->
                RegexRepeat(re, i, s, j, Len(s) - j + 1, 0, FALSE)
           [] re[i] = "." ->
                IF j <= Len(s) THEN RegexExec(re, i + 1, s, j + 1) ELSE Fail
           [] OTHER ->
                IF j <= Len(s) /\ s[j] = re[i]
                THEN RegexExec(re, i + 1, s, j + 1) ELSE Fail

\* the quantified fragment re[i] takes k characters, then k-1, ... down to min
RegexRepeat(re, i, s, j, k, min, capture) ==
    IF k < min THEN Fail
    ELSE LET rest == RegexExec(re, i + 1, s, j + k)
         IN  IF rest.ok
             THEN [ok |-> TRUE,
                   groups |-> IF capture
                              THEN <<SubSeq(s, j, j + k - 1)>> \o rest.groups
                              ELSE rest.groups]
             ELSE RegexRepeat(re, i, s, j, k - 1, min, capture)

\* String.prototype.match with a non-global RegExp: the first start position
\* at which the expression matches
RECURSIVE StringMatchFrom(_, _, _)
StringMatchFrom(s, re, start) ==
    IF start > Len(s) + 1 THEN Fail
    ELSE LET m == RegexExec(re, 1, s, start)
         IN  IF m.ok THEN m ELSE StringMatchFrom(s, re, start + 1)

StringMatch(s, re) == StringMatchFrom(s, re, 1)

\* ------------------------------------------------------ Router.pathToRegex
\* first replace: every ":" followed by at least one non-"/" character, with
\* all the non-"/" characters after it, becomes a group and names a key
RECURSIVE ReplaceParams(_, _)
ReplaceParams(path, i) ==
    IF i > Len(path) THEN [src |-> <<>>, keys |-> <<>>]
    ELSE IF path[i] = ":" /\ NonSlashRun(path, i + 1) > 0
         THEN LET n == NonSlashRun(path, i + 1)
                  rest == ReplaceParams(path, i + n + 1)
              IN  [src |-> <<GroupSrc>> \o rest.src,
                   keys |-> <<SubSeq(path, i + 1, i + n)>> \o rest.keys]
         ELSE LET rest == ReplaceParams(path, i + 1)
              IN  [src |-> <<path[i]>> \o rest.src, keys |-> rest.keys]

\* variant: a "*" becomes the group of a parameter
ReplaceStarsAsGroup(src) ==
    [k \in 1..Len(src) |-> IF src[k] = "*" THEN GroupSrc ELSE src[k]]

\* second replace: every "*" becomes ".*"
ReplaceStars(src) ==
    [k \in 1..Len(src) |-> IF src[k] = "*" THEN StarSrc ELSE src[k]]

pathToRegex(path) ==
    LET replaced == ReplaceParams(path, 1)
    IN  [pattern |-> <<"^">> \o ReplaceStars(replaced.src) \o <<"$">>,
         keys |-> replaced.keys]

\* -------------------------------------------------------- Router.matchPath
Null == [ok |-> FALSE]

\* params[key] = value, on a Record
AssignParam(params, key, value) ==
    [k \in (DOMAIN params) \cup {key} |-> IF k = key THEN value ELSE params[k]]

EmptyParams == [k \in {} |-> <<>>]

\* keys.forEach((key, index) => params[key] = match[index + 1] || "")
RECURSIVE BindKeys(_, _, _, _), BindKeysOffByOne(_, _, _, _)
\* variant: match[index] in place of match[index + 1], so that the first key
\* takes nothing of its own capture and every later key the capture before
BindKeysOffByOne(keys, groups, index, params) ==
    IF index > Len(keys) THEN params
    ELSE BindKeysOffByOne(keys, groups, index + 1,
                          AssignParam(params, keys[index],
                                      IF index > 1 /\ index - 1 <= Len(groups)
                                      THEN groups[index - 1] ELSE <<>>))

\* variant: a key that is bound already keeps its value
RECURSIVE BindKeysFirstWins(_, _, _, _)
BindKeysFirstWins(keys, groups, index, params) ==
    IF index > Len(keys) THEN params
    ELSE BindKeysFirstWins(keys, groups, index + 1,
                           IF keys[index] \in DOMAIN params THEN params
                           ELSE AssignParam(params, keys[index],
                                            IF index <= Len(groups)
                                            THEN groups[index] ELSE <<>>))

\* variant: only the first key is bound
BindKeysFirstOnly(keys, groups, index, params) ==
    IF keys = <<>> THEN params
    ELSE AssignParam(params, keys[1],
                     IF 1 <= Len(groups) THEN groups[1] ELSE <<>>)

BindKeys(keys, groups, index, params) ==
    IF index > Len(keys) THEN params
    ELSE BindKeys(keys, groups, index + 1,
                  AssignParam(params, keys[index],
                              IF index <= Len(groups) THEN groups[index] ELSE <<>>))

matchPath(pattern, path) ==
    LET pathPattern == pathToRegex(pattern)
        match == StringMatch(path, pathPattern.pattern)
    IN  IF ~match.ok THEN Null
        ELSE [ok |-> TRUE,
              params |-> BindKeys(pathPattern.keys, match.groups, 1, EmptyParams)]

\* ---------------------------------------------------------- Router.findRoute
\* for (const route of this.routes): the first route from index i on whose
\* method is the requested one and whose path pattern matches
RECURSIVE FindRouteFrom(_, _, _, _)
FindRouteFrom(rs, i, method, path) ==
    IF i > Len(rs) THEN [found |-> FALSE]
    ELSE IF rs[i].method # method THEN FindRouteFrom(rs, i + 1, method, path)
         ELSE LET match == matchPath(rs[i].path, path)
              IN  IF match.ok
                  THEN [found |-> TRUE, index |-> i, route |-> rs[i],
                        params |-> match.params]
                  ELSE FindRouteFrom(rs, i + 1, method, path)

\* variant: the last matching route wins
RECURSIVE FindRouteBack(_, _, _, _)
FindRouteBack(rs, i, method, path) ==
    IF i < 1 THEN [found |-> FALSE]
    ELSE IF rs[i].method # method THEN FindRouteBack(rs, i - 1, method, path)
         ELSE LET match == matchPath(rs[i].path, path)
              IN  IF match.ok
                  THEN [found |-> TRUE, index |-> i, route |-> rs[i],
                        params |-> match.params]
                  ELSE FindRouteBack(rs, i - 1, method, path)

findRouteLastWins(rs, method, path) == FindRouteBack(rs, Len(rs), method, path)

\* variant: the method of a route is not compared
RECURSIVE FindRouteAnyMethod(_, _, _)
FindRouteAnyMethod(rs, i, path) ==
    IF i > Len(rs) THEN [found |-> FALSE]
    ELSE LET match == matchPath(rs[i].path, path)
         IN  IF match.ok
             THEN [found |-> TRUE, index |-> i, route |-> rs[i],
                   params |-> match.params]
             ELSE FindRouteAnyMethod(rs, i + 1, path)

findRouteAnyMethod(rs, method, path) == FindRouteAnyMethod(rs, 1, path)

findRoute(rs, method, path) == FindRouteFrom(rs, 1, method, path)

\* ------------------------------------------------------- Router.addRoute
\* the route a router with the given prefix and middleware stack stores
NewRoute(prefix, routerMiddlewares, method, path, handler, middlewares) ==
    [method |-> method,
     path |-> prefix \o path,
     handler |-> handler,
     middlewares |-> routerMiddlewares \o middlewares]

\* ------------------------------------------------- dispatcher: input sets
MaxRoutes == 2          \* routes registered on the application
MaxGlobal == 2          \* app.use calls
MaxRouteMw == 1         \* route-specific middleware per route
MaxRepeat == 1          \* continuation calls after an invocation's first, per request

Methods == {"GET", "POST"}      \* methods routes are registered with
ReqMethods == {"GET"}           \* methods of the requests
AppPatterns == {<<"/", ":", "i">>, <<"/", "a">>}
ReqPaths == {<<"/", "a">>, <<"/", "b">>}
StatusCodes == {201}

\* Every registration passes a new function: the k-th global middleware is
\* <<"g", k>>, the k-th middleware of a route <<"r", k>>, the handler of the
\* k-th route <<"h", k>>.
GlobalMw(k) == <<"g", k>>
RouteMws(n) == [k \in 1..n |-> <<"r", k>>]

\* values user code throws: an Error with a message, and a value that is not
\* an Error
Thrown ==
    {[isError |-> TRUE, message |-> "boom"],
     [isError |-> FALSE, message |-> "str"]}

\* -------------------------------------------------------------- Context
DefaultStatus == 200

\* Context.json(data): a Response with the pending status
\* new Headers()
NoHeaders == [n \in {} |-> ""]

\* Headers.set(name, value)
HeadersSet(headers, name, value) ==
    [n \in (DOMAIN headers) \cup {name} |->
        IF n = name THEN value ELSE headers[n]]

CtxJson(ctx, by, pos, calls, body) ==
    [type |-> "Response", status |-> ctx.status,
     headers |-> HeadersSet(ctx.headers, "content-type", "application/json"),
     by |-> by, pos |-> pos,
     calls |-> calls, body |-> body]

NoBody == [error |-> "", message |-> <<>>, stack |-> FALSE]

\* a value that is not a Response (an object, a string)
PlainValue(by) == [type |-> "value", by |-> by]
\* undefined
Nothing == [type |-> "none"]

\* new Response('No response generated', { status: 500 })
NoResponseGenerated ==
    [type |-> "Response", status |-> 500, by |-> <<"fallback">>, pos |-> 0,
     calls |-> 0,
     body |-> [error |-> "", message |-> <<"No response generated">>,
               stack |-> FALSE]]

\* ------------------------------------------------------------------ state
VARIABLES
    mPattern,   \* matchPath: the pattern argument
    mPath,      \* matchPath: the path argument
    mResult,    \* matchPath: the value returned
    mDone,      \* whether matchPath has been applied
    routes,             \* appRouter.routes
    globalMiddlewares,  \* NinoApp.globalMiddlewares
    errorHandler,       \* NinoApp.errorHandler: "unset" or "set"
    development,        \* NinoApp.config.development
    pc,         \* "setup", "chain", "handleError", "done"
    request,    \* the request being handled: method and path
    matched,    \* the value findRoute returned for it
    context,    \* its Context: pending status and params
    middlewares,\* executeMiddlewareChain: the effective middleware list
    index,      \* executeMiddlewareChain: index
    response,   \* executeMiddlewareChain: response
    stack,      \* running invocations, outermost first
    error,      \* the value caught by handleRequest
    result,     \* the value handleRequest resolved with
    returns,    \* number of times handleRequest returned
    started,    \* history: the invocations started, in order
    repeats,    \* history: continuation calls after an invocation's first
    skipped,    \* history: some middleware returned without invoking its
                \* continuation
    short,      \* history: the latest middleware invocation that returned a
                \* Response without invoking its continuation (a short-circuit):
                \* its position and Response, the number of invocations
                \* started by then, whether next() assigned the Response, and
                \* whether since then response was assigned again (overridden)
                \* or a continuation was invoked (resumed)
    thrown,     \* history: the values user code threw
    ehOutcome,  \* history: what the custom error handler did, "" if not invoked
    values,     \* history: whether some middleware has returned a value that
                \* is neither a Response nor undefined (mw), and whether the
                \* handler has, with response not assigned since (handler);
                \* the Response produced last by an invocation that has
                \* returned (last)
    router,     \* a Router of its own: prefix, middlewares, routes
    mounts,     \* history: the addRouter calls: prefix, length of the
                \* application's route list before, the router's routes then
    lookup      \* the latest findRoute call since the last registration: on
                \* which table, for what, its result, whether it left the
                \* tables as they were, and whether it repeats the call
                \* before it and with the same result
VARIABLES
    isoReq,     \* concurrent requests: for each its handleRequest call (place,
                \* path, match, the chain's index and response, the result)
    isoCtx      \* concurrent requests: the Context objects (params, status,
                \* state)
VARIABLES
    devConfig   \* the development member of the NinoConfig the application
                \* was constructed with: "absent", "true" or "false"
VARIABLES
    bReq,       \* the request a Context was made for: its Content-Type, what
                \* its body holds, whether json() is installed
    bCtx,       \* the Context: _body and _bodyParsed
    bStream,    \* the request's body stream: whether it was used (bodyUsed)
                \* and how many reads of it were started
    bPending,   \* the _parseBody calls suspended at their await: for each
                \* whether the read it awaits resolves ("ok") or rejects
    bReads,     \* history: the values the reads of context.body returned
    bJson       \* json(): where its invocation is, and the bodyData it read
VARIABLES
    rlCfg,      \* rateLimit(options): windowMs and maxRequests
    rlNow,      \* Date.now()
    rlMap,      \* rateLimit: the requests Map, per client key its entry
    rlReq,      \* the invocations of the rate limiter, one per request: where
                \* each is and the client key of its request
    rlHist,     \* history: per client key, how many requests reached the
                \* continuation and how many were refused since the entry
                \* of the key was last set
    rlAdmits    \* history: per client key, the times at which its requests
                \* reached the continuation
VARIABLES
    ehmOpts,    \* errorHandler(options): defaultStatus, includeStack, and
                \* what the onError option does, "none" if not given
    ehmRun,     \* a request through errorHandler() as the only middleware:
                \* where it is, the context's pending status, the chain's
                \* response, what the code below threw, the Response the
                \* default handling built, what the middleware returned,
                \* the Response of the request
    decMeta,    \* decorators: routeMetadata.get(ctor) of one controller class
    decPending, \* decorators: target._pendingMiddlewares
    decUsed,    \* history: per method name the middleware declared with
                \* @UseMiddleware so far
    corsCfg,    \* cors(options) as global middleware: origin, credentials,
                \* and the methods a route is registered for at the path
    corsReq,    \* the request: its method and its Origin header
    corsRun     \* the request's handling: where it is, the context's pending
                \* headers and status, the continuation calls of cors(),
                \* whether the handler ran, the Response of the request

matchVars == <<mPattern, mPath, mResult, mDone>>
appVars == <<routes, globalMiddlewares, errorHandler, development>>
histVars == <<started, repeats, skipped, short, thrown, ehOutcome, values>>
reqVars == <<pc, request, matched, context, middlewares, index, response,
             stack, error, result, returns, histVars>>
mountVars == <<router, mounts, lookup>>
isoVars == <<isoReq, isoCtx>>
configVars == <<devConfig>>
bodyVars == <<bReq, bCtx, bStream, bPending, bReads, bJson>>
rateVars == <<rlCfg, rlNow, rlMap, rlReq, rlHist, rlAdmits>>
ehmVars == <<ehmOpts, ehmRun>>
decVars == <<decMeta, decPending, decUsed>>
corsVars == <<corsCfg, corsReq, corsRun>>
builtinVars == <<ehmVars, decVars, corsVars>>
extraVars == <<configVars, bodyVars, rateVars, builtinVars>>
otherVars == <<isoVars, extraVars>>
vars == <<matchVars, otherVars, mountVars, appVars, reqVars>>

NoShort == [is |-> FALSE, pos |-> 0, response |-> Nothing, at |-> 0,
            assigned |-> FALSE, overridden |-> FALSE, resumed |-> FALSE]
NoValues == [mw |-> FALSE, handler |-> FALSE, last |-> Nothing]
NoRequest == [method |-> "", path |-> <<>>]
NoError == [caught |-> FALSE, isError |-> FALSE, message |-> ""]
NewContext ==
    [status |-> DefaultStatus, params |-> EmptyParams, headers |-> NoHeaders]

ReqIdle ==
    /\ pc = "setup"
    /\ request = NoRequest
    /\ matched = [found |-> FALSE]
    /\ context = NewContext
    /\ middlewares = <<>>
    /\ index = 0
    /\ response = Nothing
    /\ stack = <<>>
    /\ error = NoError
    /\ result = Nothing
    /\ returns = 0
    /\ started = <<>>
    /\ repeats = 0
    /\ skipped = FALSE
    /\ short = NoShort
    /\ thrown = {}
    /\ ehOutcome = ""
    /\ values = NoValues

\* variant: development mode only when the configuration enables it
ConfigDevelopmentOptIn(cfg) == cfg = "true"

\* constructor: { port: 3000, hostname: 'localhost', development: true,
\* ...config }
ConfigDevelopment(cfg) == IF cfg = "absent" THEN TRUE ELSE cfg = "true"

AppNew ==
    /\ routes = <<>>
    /\ globalMiddlewares = <<>>
    /\ errorHandler = "unset"

\* new Router({ prefix })
NewRouter(prefix) == [prefix |-> prefix, middlewares |-> <<>>, routes |-> <<>>]

NoLookup ==
    [on |-> "", method |-> "", path |-> <<>>, result |-> [found |-> FALSE],
     unchanged |-> TRUE, repeated |-> FALSE, same |-> TRUE]

\* no Router besides the application's own
MountIdle ==
    /\ router = NewRouter(<<>>)
    /\ mounts = <<>>
    /\ lookup = NoLookup

\* ----------------------------------------------------- concurrent requests
MaxRequests == 2        \* requests in flight together

Requests == 1..MaxRequests

\* a handleRequest call not yet made
IsoIdleReq ==
    [pc |-> "idle", path |-> <<>>, found |-> FALSE, mws |-> 0, index |-> 0,
     depth |-> 0, response |-> Nothing, result |-> Nothing]

\* new Context(request)
IsoNewCtx == [params |-> EmptyParams, status |-> DefaultStatus, state |-> {}]

IsoIdle ==
    /\ isoReq = [r \in Requests |-> IsoIdleReq]
    /\ isoCtx = [c \in Requests |-> IsoNewCtx]

\* ---------------------------------------------------------- Context.body
MaxReads == 3           \* reads of context.body during one request

ContentTypes ==
    {"application/json", "application/x-www-form-urlencoded",
     "multipart/form-data", "text/plain", "application/octet-stream"}

\* what the request's body holds: a JSON object or array, a JSON value that
\* is not one, or bytes that are not well formed for the Content-Type
RawBodies == {"object", "primitive", "malformed"}

\* private _body: unknown = null
Placeholder == "null"

\* what the read that _parseBody awaits resolves with: the parsed body, or
\* "reject" if the awaited promise rejects
ParseResult(ctype, raw) ==
    CASE ctype = "application/json" ->
             IF raw = "malformed" THEN "reject" ELSE raw
      [] ctype = "application/x-www-form-urlencoded" ->
             IF raw = "malformed" THEN "reject" ELSE "formObject"
      [] ctype = "multipart/form-data" ->
             IF raw = "malformed" THEN "reject" ELSE "FormData"
      [] ctype = "text/plain" -> "string"
      [] OTHER -> "ArrayBuffer"

\* new Context(request), nothing read yet
BodyFresh ==
    /\ bCtx = [body |-> Placeholder, parsed |-> FALSE]
    /\ bStream = [used |-> FALSE, reads |-> 0]
    /\ bPending = <<>>
    /\ bReads = <<>>

BodyIdle ==
    /\ bReq = [ctype |-> "", raw |-> "", json |-> FALSE]
    /\ BodyFresh
    /\ bJson = [pc |-> "none", data |-> Placeholder]

\* ------------------------------------------------------------- rateLimit
MaxRateRequests == 4    \* requests passing through the rate limiter
MaxNow == 3             \* the clock stops there
MaxWindowMs == 2        \* windowMs is 1..MaxWindowMs
MaxLimit == 2           \* maxRequests is 1..MaxLimit

RateRequests == 1..MaxRateRequests
ClientKeys == {"k1", "k2"}

\* requests.get(clientKey) of a key the Map does not hold
NoClientData == [present |-> FALSE, count |-> 0, resetTime |-> 0]

\* const requests = new Map()
RateFresh ==
    /\ rlNow = 0
    /\ rlMap = [k \in ClientKeys |-> NoClientData]
    /\ rlReq = [r \in RateRequests |-> [pc |-> "idle", key |-> ""]]
    /\ rlHist = [k \in ClientKeys |-> [passed |-> 0, refused |-> 0]]
    /\ rlAdmits = [k \in ClientKeys |-> <<>>]

RateIdle ==
    /\ rlCfg = [windowMs |-> 0, maxRequests |-> 0]
    /\ RateFresh

\* ------------------------------------------- errorHandler(), decorators, cors()
\* errorHandler() not entered yet
ErrMwFresh ==
    ehmRun = [pc |-> "idle", status |-> DefaultStatus, response |-> Nothing,
              thrown |-> NoError, made |-> Nothing, returned |-> Nothing,
              result |-> Nothing]

ErrMwIdle ==
    /\ ehmOpts = [defaultStatus |-> 0, includeStack |-> FALSE, onError |-> ""]
    /\ ErrMwFresh

\* const routeMetadata = new Map(); no decorator applied yet
DecFresh ==
    /\ decMeta = <<>>
    /\ decPending = [k \in {} |-> <<>>]
    /\ decUsed = [k \in {} |-> <<>>]

\* new Context(request), cors() not entered yet
CorsFresh ==
    corsRun = [pc |-> "idle", headers |-> NoHeaders, status |-> DefaultStatus,
               calls |-> 0, handlerRan |-> FALSE, result |-> Nothing]

CorsIdle ==
    /\ corsCfg = [origin |-> "", credentials |-> FALSE, routeMethods |-> {}]
    /\ corsReq = [method |-> "", origin |-> ""]
    /\ CorsFresh

BuiltinIdle == ErrMwIdle /\ DecFresh /\ CorsIdle

OthersIdle == IsoIdle /\ BodyIdle /\ RateIdle /\ BuiltinIdle

\* ------------------------------------------- specification of matchPath
InitMatch ==
    /\ mPattern \in Patterns
    /\ mPath \in Paths
    /\ mResult = Null
    /\ mDone = FALSE
    /\ AppNew
    /\ devConfig = "absent"
    /\ development = ConfigDevelopment(devConfig)
    /\ ReqIdle
    /\ MountIdle
    /\ OthersIdle

MatchPath ==
    /\ ~mDone
    /\ mResult' = matchPath(mPattern, mPath)
    /\ mDone' = TRUE
    /\ UNCHANGED <<mPattern, mPath, otherVars, mountVars, appVars, reqVars>>

NextMatch == MatchPath

SpecMatch == InitMatch /\ [][NextMatch]_vars

\* ------------------------------------------------------- registration
\* NinoApp.use
Use(middleware) ==
    /\ pc = "setup"
    /\ Len(globalMiddlewares) < MaxGlobal
    /\ globalMiddlewares' = Append(globalMiddlewares, middleware)
    /\ UNCHANGED <<matchVars, otherVars, mountVars, routes, errorHandler, development, reqVars>>

\* NinoApp.get, post, ...: appRouter is a Router without prefix and without
\* middleware of its own
AddRoute(method, path, handler, mws) ==
    /\ pc = "setup"
    /\ Len(routes) < MaxRoutes
    /\ routes' = Append(routes, NewRoute(<<>>, <<>>, method, path, handler, mws))
    /\ UNCHANGED <<matchVars, otherVars, mountVars, globalMiddlewares, errorHandler, development, reqVars>>

\* NinoApp.onError
OnError ==
    /\ pc = "setup"
    /\ errorHandler' = "set"
    /\ UNCHANGED <<matchVars, otherVars, mountVars, routes, globalMiddlewares, development, reqVars>>

\* ------------------------------------------------ executeMiddlewareChain
Frame(pos, name) == [pos |-> pos, name |-> name, calls |-> 0, catching |-> FALSE]

Top(st) == st[Len(st)]
Pop(st) == SubSeq(st, 1, Len(st) - 1)

\* variant: middlewares[index] without the increment
NextCalleeNoAdvance(mws, idx, handler) ==
    IF idx < Len(mws)
    THEN [index |-> idx, frame |-> Frame(idx + 1, mws[idx + 1])]
    ELSE [index |-> idx, frame |-> Frame(Len(mws) + 1, handler)]

\* next(): the invocation it starts, and the index afterwards
NextCallee(mws, idx, handler) ==
    IF idx < Len(mws)
    THEN [index |-> idx + 1, frame |-> Frame(idx + 1, mws[idx + 1])]
    ELSE [index |-> idx, frame |-> Frame(Len(mws) + 1, handler)]

\* variant: only what the handler returns is assigned
NextAssignsHandlerOnly(frame, nMws, value) ==
    frame.pos > nMws /\ value.type # "none"

\* variant: only what a middleware returns without having invoked its
\* continuation, and what the handler returns, is assigned
NextAssignsDownstreamWins(frame, nMws, value) ==
    IF frame.pos <= nMws THEN value.type = "Response" /\ frame.calls = 0
    ELSE value.type # "none"

\* whether next() assigns to response once the invocation it awaited has
\* returned value
NextAssigns(frame, nMws, value) ==
    IF frame.pos <= nMws THEN value.type = "Response" ELSE value.type # "none"

\* variant: the value is assigned as it is
NextResultRaw(frame, nMws, value, ctx) == value

\* variant: the value is wrapped without the request's pending state
NextResultFreshContext(frame, nMws, value, ctx) ==
    IF value.type = "Response" THEN value
    ELSE CtxJson(NewContext, <<"json">>, frame.pos, frame.calls, NoBody)

\* the value next() assigns to response then
NextResult(frame, nMws, value, ctx) ==
    IF value.type = "Response" THEN value
    ELSE CtxJson(ctx, <<"json">>, frame.pos, frame.calls, NoBody)

\* variant: without the fallback
OrUndefined(resp) == resp

\* return response || new Response('No response generated', { status: 500 })
OrNoResponse(resp) == IF resp.type = "none" THEN NoResponseGenerated ELSE resp

\* variant: next() catches what the invocation it awaited threw, so that the
\* caller goes on
UnwindToCaller(st) == st

\* a thrown value leaves every invocation that awaits its continuation
\* outside a try block: the frames that remain, innermost last
RECURSIVE Unwind(_)
Unwind(st) ==
    IF st = <<>> THEN <<>>
    ELSE IF Top(st).catching THEN st
    ELSE Unwind(Pop(st))

\* ----------------------------------------------------------- handleNotFound
NotFoundMessage(method, path) ==
    <<"Route", " ", method, " ">> \o path \o <<" ", "not found">>

handleNotFound(ctx, method, path) ==
    CtxJson([ctx EXCEPT !.status = 404], <<"handleNotFound">>, 0, 0,
            [error |-> "Not Found", message |-> NotFoundMessage(method, path),
             stack |-> FALSE])

\* ------------------------------------------------------------ handleRequest
\* variant: the route's middleware first
EffectiveMiddlewaresRouteFirst(globals, routeMws) == routeMws \o globals

\* [...this.globalMiddlewares, ...(match.route.middlewares || [])]
EffectiveMiddlewares(globals, routeMws) == globals \o routeMws

\* variant: the global middleware run before the route is looked up
StartedOnNotFoundGlobals(globals) == globals

\* the invocations started for a request that matches no route:
\* handleRequest returns handleNotFound(context) before it builds the chain
StartedOnNotFound(globals) == <<>>

\* variant: the chain starts before the parameters are set
AssignParamsLater(ctx, params) == ctx

\* Object.assign(context.params, match.params)
AssignParams(ctx, params) ==
    [ctx EXCEPT !.params = [k \in DOMAIN params \cup DOMAIN ctx.params |->
                               IF k \in DOMAIN params THEN params[k]
                               ELSE ctx.params[k]]]

\* up to the first invocation of user code: the request is answered with the
\* not-found Response, or the chain starts
HandleRequest(method, path) ==
    /\ pc = "setup"
    /\ request' = [method |-> method, path |-> path]
    /\ LET match == findRoute(routes, method, path)
       IN  /\ matched' = match
           /\ IF ~match.found
              THEN /\ context' = [context EXCEPT !.status = 404]
                   /\ result' = handleNotFound(context, method, path)
                   /\ returns' = returns + 1
                   /\ pc' = "done"
                   /\ started' = StartedOnNotFound(globalMiddlewares)
                   /\ UNCHANGED <<middlewares, index, response, stack>>
              ELSE LET mws == EffectiveMiddlewares(globalMiddlewares,
                                                       match.route.middlewares)
                       callee == NextCallee(mws, 0, match.route.handler)
                   IN  /\ context' = AssignParams(context, match.params)
                       /\ middlewares' = mws
                       /\ response' = Nothing
                       /\ index' = callee.index
                       /\ stack' = <<callee.frame>>
                       /\ started' = <<callee.frame.name>>
                       /\ pc' = "chain"
                       /\ UNCHANGED <<result, returns>>
    /\ UNCHANGED <<matchVars, otherVars, mountVars, appVars, error, repeats, skipped, short, thrown,
                   ehOutcome, values>>

\* user code calls context.status(code)
CtxStatus(code) ==
    /\ pc = "chain"
    /\ context.status # code
    /\ context' = [context EXCEPT !.status = code]
    /\ UNCHANGED <<matchVars, otherVars, mountVars, appVars, pc, request, matched, middlewares, index,
                   response, stack, error, result, returns, histVars>>

\* user code calls context.header(name, value)
CtxHeader(name, value) ==
    /\ pc = "chain"
    /\ name \notin DOMAIN context.headers
    /\ context' = [context EXCEPT !.headers = HeadersSet(@, name, value)]
    /\ UNCHANGED <<matchVars, otherVars, mountVars, appVars, pc, request, matched, middlewares, index,
                   response, stack, error, result, returns, histVars>>

\* a middleware invokes its continuation and awaits it, inside a try block
\* (catching) or not
MwNext(catching) ==
    /\ pc = "chain"
    /\ Top(stack).pos <= Len(middlewares)
    /\ Top(stack).calls = 0 \/ repeats < MaxRepeat
    /\ LET caller == Top(stack)
           callee == NextCallee(middlewares, index, matched.route.handler)
       IN  /\ index' = callee.index
           /\ stack' = Append([stack EXCEPT ![Len(stack)].calls = caller.calls + 1,
                                            ![Len(stack)].catching = catching],
                              callee.frame)
           /\ started' = Append(started, callee.frame.name)
           /\ repeats' = IF caller.calls = 0 THEN repeats ELSE repeats + 1
           /\ short' = IF short.is THEN [short EXCEPT !.resumed = TRUE] ELSE short
    /\ UNCHANGED <<matchVars, otherVars, mountVars, appVars, pc, request, matched, context, middlewares,
                   response, error, result, returns, skipped, thrown, ehOutcome,
                   values>>

\* the Response the chain's invocations produced last, in the order in which
\* they returned: was, unless the invocation that returns now produced one
\* (a Response it returned, or the handler's value in its JSON Response)
Produced(frame, nMws, out, value, ctx, was) ==
    CASE out = "Response" -> value
      [] out = "value" /\ frame.pos > nMws ->
             CtxJson(ctx, <<"json">>, frame.pos, frame.calls, NoBody)
      [] OTHER -> was

\* the running middleware or handler returns: a Response it built with the
\* pending status, a value that is not a Response, or nothing
Return(out) ==
    /\ pc = "chain"
    /\ LET frame == Top(stack)
           isMw == frame.pos <= Len(middlewares)
           value == CASE out = "Response" ->
                           CtxJson(context, frame.name, frame.pos, frame.calls, NoBody)
                      [] out = "value" -> PlainValue(frame.name)
                      [] OTHER -> Nothing
           assigned == NextAssigns(frame, Len(middlewares), value)
           resp == IF assigned
                   THEN NextResult(frame, Len(middlewares), value, context)
                   ELSE response
       IN  /\ response' = resp
           /\ skipped' = (skipped \/ (isMw /\ frame.calls = 0))
           /\ values' = [mw |-> values.mw \/ (isMw /\ out = "value"),
                         handler |-> IF ~isMw /\ out = "value" THEN TRUE
                                     ELSE IF assigned THEN FALSE
                                     ELSE values.handler,
                         last |-> Produced(frame, Len(middlewares), out, value,
                                           context, values.last)]
           /\ short' = IF isMw /\ frame.calls = 0 /\ out = "Response"
                       THEN [is |-> TRUE, pos |-> frame.pos, response |-> value,
                             at |-> Len(started), assigned |-> assigned,
                             overridden |-> FALSE, resumed |-> FALSE]
                       ELSE IF short.is /\ assigned
                            THEN [short EXCEPT !.overridden = TRUE]
                       ELSE short
           /\ IF Len(stack) = 1
              THEN /\ stack' = <<>>
                   /\ result' = OrNoResponse(OrNoResponse(resp))
                   /\ returns' = returns + 1
                   /\ pc' = "done"
              ELSE /\ stack' = [Pop(stack) EXCEPT ![Len(stack) - 1].catching = FALSE]
                   /\ UNCHANGED <<result, returns, pc>>
    /\ UNCHANGED <<matchVars, otherVars, mountVars, appVars, request, matched, context, middlewares,
                   index, error, started, repeats, thrown, ehOutcome>>

\* the running middleware or handler throws
Throw(value) ==
    /\ pc = "chain"
    /\ LET rest == Unwind(Pop(stack))
       IN  IF rest = <<>>
           THEN /\ stack' = <<>>
                /\ error' = [caught |-> TRUE, isError |-> value.isError,
                             message |-> value.message]
                /\ pc' = "handleError"
           ELSE /\ stack' = [rest EXCEPT ![Len(rest)].catching = FALSE]
                /\ UNCHANGED <<error, pc>>
    /\ thrown' = thrown \cup {value}
    /\ UNCHANGED <<matchVars, otherVars, mountVars, appVars, request, matched, context, middlewares,
                   index, response, result, returns, started, repeats,
                   skipped, short, ehOutcome, values>>

\* -------------------------------------------------------------- handleError
\* what an invocation of the custom error handler does
ErrorHandlerOutcomes ==
    {"Response", "promiseResponse", "value", "promiseValue", "throw", "reject"}

\* variant: without context.status(500)
DefaultErrorResponsePendingStatus(ctx, err, dev) ==
    CtxJson(ctx, <<"handleError">>, 0, 0,
            [error |-> "Internal Server Error",
             message |-> IF err.isError THEN <<err.message>>
                         ELSE <<"Unknown error occurred">>,
             stack |-> dev /\ err.isError])

DefaultErrorResponse(ctx, err, dev) ==
    CtxJson([ctx EXCEPT !.status = 500], <<"handleError">>, 0, 0,
            [error |-> "Internal Server Error",
             message |-> IF err.isError THEN <<err.message>>
                         ELSE <<"Unknown error occurred">>,
             stack |-> dev /\ err.isError])

\* whether handleError invokes the custom handler
InvokesErrorHandler(handler, err) == handler = "set" /\ err.isError

\* variant: the promise is returned without await, so that a rejection
\* leaves the try block
ReturnsCustomResultNoAwait(outcome) == outcome # "throw"

\* whether the value the custom handler produced is returned: a failure of
\* the handler, thrown or rejected, is caught and falls through
ReturnsCustomResult(outcome) == outcome \notin {"throw", "reject"}

\* the value the custom handler produced
CustomErrorResult(outcome, ctx) ==
    IF outcome \in {"Response", "promiseResponse"}
    THEN CtxJson(ctx, <<"errorHandler">>, 0, 0, NoBody)
    ELSE PlainValue(<<"errorHandler">>)

HandleError(outcome) ==
    /\ pc = "handleError"
    /\ IF InvokesErrorHandler(errorHandler, error)
       THEN /\ ehOutcome' = outcome
            /\ IF ReturnsCustomResult(outcome)
               THEN /\ result' = CustomErrorResult(outcome, context)
                    /\ UNCHANGED context
               ELSE /\ result' = DefaultErrorResponse(context, error, development)
                    /\ context' = [context EXCEPT !.status = 500]
       ELSE /\ outcome = "throw"
            /\ result' = DefaultErrorResponse(context, error, development)
            /\ context' = [context EXCEPT !.status = 500]
            /\ UNCHANGED ehOutcome
    /\ returns' = returns + 1
    /\ pc' = "done"
    /\ UNCHANGED <<matchVars, otherVars, mountVars, appVars, request, matched, middlewares, index,
                   response, stack, error, started, repeats, skipped, short,
                   thrown, values>>

\* ------------------------------------------ specification of the dispatcher
Init ==
    /\ mPattern = <<>>
    /\ mPath = <<>>
    /\ mResult = Null
    /\ mDone = FALSE
    /\ AppNew
    /\ devConfig \in {"true", "false"}
    /\ development = ConfigDevelopment(devConfig)
    /\ ReqIdle
    /\ MountIdle
    /\ OthersIdle

Next ==
    \/ Use(GlobalMw(Len(globalMiddlewares) + 1))
    \/ \E method \in Methods, path \in AppPatterns, n \in 0..MaxRouteMw :
          AddRoute(method, path, <<"h", Len(routes) + 1>>, RouteMws(n))
    \/ OnError
    \/ \E method \in ReqMethods, path \in ReqPaths : HandleRequest(method, path)
    \/ \E code \in StatusCodes : CtxStatus(code)
    \/ \E catching \in BOOLEAN : MwNext(catching)
    \/ \E out \in {"Response", "value", "void"} : Return(out)
    \/ \E value \in Thrown : Throw(value)
    \/ \E outcome \in ErrorHandlerOutcomes : HandleError(outcome)

Spec == Init /\ [][Next]_vars


\* ------------------------------- one request to a configured application
HeaderNames == {"x-a"}
HeaderValues == {"1"}

\* new NinoApp(config) with or without the development member, then
\* app.use(g1); app.get('/:i', m1, h1); and possibly app.onError(handler)
InitRun ==
    /\ mPattern = <<>>
    /\ mPath = <<>>
    /\ mResult = Null
    /\ mDone = FALSE
    /\ routes = <<NewRoute(<<>>, <<>>, "GET", <<"/", ":", "i">>, <<"h", 1>>,
                           RouteMws(1))>>
    /\ globalMiddlewares = <<GlobalMw(1)>>
    /\ errorHandler \in {"unset", "set"}
    /\ devConfig \in {"absent", "true", "false"}
    /\ development = ConfigDevelopment(devConfig)
    /\ ReqIdle
    /\ MountIdle
    /\ OthersIdle

\* an invocation of user code comes to its end: it returns or throws
Terminates ==
    \/ \E out \in {"Response", "value", "void"} : Return(out)
    \/ \E value \in Thrown : Throw(value)

NextRun ==
    \/ \E method \in ReqMethods, path \in ReqPaths \cup {<<"/">>} :
          HandleRequest(method, path)
    \/ \E code \in StatusCodes : CtxStatus(code)
    \/ \E name \in HeaderNames, value \in HeaderValues : CtxHeader(name, value)
    \/ \E catching \in BOOLEAN : MwNext(catching)
    \/ Terminates
    \/ \E outcome \in ErrorHandlerOutcomes : HandleError(outcome)

SpecRun == InitRun /\ [][NextRun]_vars

\* every invocation of a middleware, of the handler and of the error handler
\* terminates; a middleware invokes its continuation at most 1 + MaxRepeat
\* times (the guard of MwNext)
SpecLive ==
    /\ SpecRun
    /\ WF_vars(Terminates)
    /\ WF_vars(\E outcome \in ErrorHandlerOutcomes : HandleError(outcome))

\* --------------------------------------------- Context.body and json()
outsideBody ==
    <<matchVars, isoVars, configVars, rateVars, builtinVars, mountVars,
      appVars, reqVars>>

\* get body(): if (!this._bodyParsed) this._parseBody()
StartsParse(ctx, pending) == ~ctx.parsed

\* get body(): return this._body, whatever _parseBody has done by then
BodyGetter(ctx, req, starts) == ctx.body

\* _parseBody up to its await: the read of the request it starts resolves as
\* the body's content decides, or rejects if the stream was used before
ReadOfStream(req, stream) ==
    IF stream.used THEN "reject" ELSE ParseResult(req.ctype, req.raw)

\* the effect of one evaluation of context.body on the Context and the stream
BodyReadEffect ==
    IF StartsParse(bCtx, bPending)
    THEN /\ bPending' = Append(bPending, ReadOfStream(bReq, bStream))
         /\ bStream' = [used |-> TRUE, reads |-> bStream.reads + 1]
    ELSE UNCHANGED <<bPending, bStream>>

\* a middleware other than json() (before it) or the handler (after it)
\* evaluates context.body
BodyRead(who) ==
    /\ Len(bReads) < MaxReads
    /\ IF who = "handler" THEN bJson.pc \in {"none", "next"}
       ELSE bJson.pc = "idle"
    /\ BodyReadEffect
    /\ bReads' = Append(bReads, BodyGetter(bCtx, bReq, StartsParse(bCtx, bPending)))
    /\ UNCHANGED <<outsideBody, bReq, bCtx, bJson>>

\* the read awaited by the k-th suspended _parseBody call settles, and the
\* call runs to its end: this._body = the parsed body, or null in the catch
\* block; this._bodyParsed = true
ParseSettles(k) ==
    /\ k \in 1..Len(bPending)
    /\ bCtx' = [body |-> IF bPending[k] = "reject" THEN Placeholder
                         ELSE bPending[k],
                parsed |-> TRUE]
    /\ bPending' = [j \in 1..(Len(bPending) - 1) |->
                       IF j < k THEN bPending[j] ELSE bPending[j + 1]]
    /\ UNCHANGED <<outsideBody, bReq, bStream, bReads, bJson>>

\* json() up to its await: const bodyData = await context.body, for a
\* request with an application/json Content-Type
JsonReadsBody ==
    /\ bJson.pc = "idle"
    /\ IF bReq.ctype = "application/json"
       THEN /\ Len(bReads) < MaxReads
            /\ BodyReadEffect
            /\ bReads' = Append(bReads, BodyGetter(bCtx, bReq,
                                                   StartsParse(bCtx, bPending)))
            /\ bJson' = [pc |-> "await",
                         data |-> BodyGetter(bCtx, bReq,
                                             StartsParse(bCtx, bPending))]
       ELSE /\ bJson' = [bJson EXCEPT !.pc = "next"]
            /\ UNCHANGED <<bPending, bStream, bReads>>
    /\ UNCHANGED <<outsideBody, bReq, bCtx>>

\* whether json() throws 'Invalid JSON body: ...': strict (the default) and
\* bodyData !== null && typeof bodyData !== "object"
JsonThrows(data) == data \notin {Placeholder, "object"}

\* json() after its await: the strict test, then the continuation
JsonChecks ==
    /\ bJson.pc = "await"
    /\ bJson' = [bJson EXCEPT !.pc = IF JsonThrows(bJson.data) THEN "threw"
                                     ELSE "next"]
    /\ UNCHANGED <<outsideBody, bReq, bCtx, bStream, bPending, bReads>>

InitBody ==
    /\ mPattern = <<>>
    /\ mPath = <<>>
    /\ mResult = Null
    /\ mDone = FALSE
    /\ AppNew
    /\ devConfig = "absent"
    /\ development = ConfigDevelopment(devConfig)
    /\ ReqIdle
    /\ MountIdle
    /\ IsoIdle
    /\ RateIdle
    /\ BuiltinIdle
    /\ bReq \in [ctype : ContentTypes, raw : RawBodies, json : BOOLEAN]
    /\ BodyFresh
    /\ bJson = [pc |-> IF bReq.json THEN "idle" ELSE "none",
                data |-> Placeholder]

NextBody ==
    \/ \E who \in {"middleware", "handler"} : BodyRead(who)
    \/ \E k \in 1..MaxReads : ParseSettles(k)
    \/ JsonReadsBody
    \/ JsonChecks

SpecBody == InitBody /\ [][NextBody]_vars

\* ------------------------------------------------------------- rateLimit
outsideRate ==
    <<matchVars, isoVars, configVars, bodyVars, builtinVars, mountVars,
      appVars, reqVars>>

\* if (!clientData || now > clientData.resetTime)
OpensWindow(clientData, now) ==
    ~clientData.present \/ now > clientData.resetTime

\* variant: the count is written back from a value read before another
\* request was counted
RateCountedStale(clientData) == clientData

\* clientData.count++
RateCounted(clientData) == [clientData EXCEPT !.count = @ + 1]

\* the rate limiter up to its await or throw, for a request with client key
\* key: no await comes before, so that it runs without interruption
RateLimitEnter(r, key) ==
    /\ rlReq[r].pc = "idle"
    /\ LET clientData == rlMap[key]
       IN  IF OpensWindow(clientData, rlNow)
           THEN /\ rlMap' = [rlMap EXCEPT ![key] =
                                [present |-> TRUE, count |-> 1,
                                 resetTime |-> rlNow + rlCfg.windowMs]]
                /\ rlReq' = [rlReq EXCEPT ![r] = [pc |-> "next", key |-> key]]
                /\ rlHist' = [rlHist EXCEPT ![key] =
                                 [passed |-> 1, refused |-> 0]]
                /\ rlAdmits' = [rlAdmits EXCEPT ![key] = Append(@, rlNow)]
           ELSE LET counted == RateCounted(clientData)
                    over == counted.count > rlCfg.maxRequests
                IN  /\ rlMap' = [rlMap EXCEPT ![key] = counted]
                    /\ rlReq' = [rlReq EXCEPT ![r] =
                                    [pc |-> IF over THEN "threw" ELSE "next",
                                     key |-> key]]
                    /\ rlHist' = [rlHist EXCEPT ![key] =
                                     IF over
                                     THEN [@ EXCEPT !.refused = @ + 1]
                                     ELSE [@ EXCEPT !.passed = @ + 1]]
                    /\ rlAdmits' = [rlAdmits EXCEPT ![key] =
                                       IF over THEN @ ELSE Append(@, rlNow)]
    /\ UNCHANGED <<outsideRate, rlCfg, rlNow>>

\* await next() resolves and the rate limiter returns
RateLimitReturns(r) ==
    /\ rlReq[r].pc = "next"
    /\ rlReq' = [rlReq EXCEPT ![r].pc = "done"]
    /\ UNCHANGED <<outsideRate, rlCfg, rlNow, rlMap, rlHist, rlAdmits>>

\* time passes
Tick ==
    /\ rlNow < MaxNow
    /\ rlNow' = rlNow + 1
    /\ UNCHANGED <<outsideRate, rlCfg, rlMap, rlReq, rlHist, rlAdmits>>

InitRate ==
    /\ mPattern = <<>>
    /\ mPath = <<>>
    /\ mResult = Null
    /\ mDone = FALSE
    /\ AppNew
    /\ devConfig = "absent"
    /\ development = ConfigDevelopment(devConfig)
    /\ ReqIdle
    /\ MountIdle
    /\ IsoIdle
    /\ BodyIdle
    /\ BuiltinIdle
    /\ rlCfg \in [windowMs : 1..MaxWindowMs, maxRequests : 1..MaxLimit]
    /\ RateFresh

NextRate ==
    \/ \E r \in RateRequests, key \in ClientKeys : RateLimitEnter(r, key)
    \/ \E r \in RateRequests : RateLimitReturns(r)
    \/ Tick

SpecRate == InitRate /\ [][NextRate]_vars

\* ---------------------------------------------- errorHandler() middleware
outsideErrMw ==
    <<matchVars, isoVars, configVars, bodyVars, rateVars, decVars, corsVars,
      mountVars, appVars, reqVars>>

\* const err = error instanceof Error ? error : new Error(String(error))
AsError(value) == [isError |-> TRUE, message |-> value.message]

\* the default error response: context.status(defaultStatus).json(errorResponse)
ErrMwResponse(opts, err) ==
    CtxJson([status |-> opts.defaultStatus, headers |-> NoHeaders],
            <<"errorHandler()">>, 1, 1,
            [error |-> "Internal Server Error", message |-> <<err.message>>,
             stack |-> opts.includeStack])

\* what the middleware returns after its default handling: the Response it
\* built is the value of an expression statement, and the function ends
ErrMwReturns(made) == Nothing

\* handleRequest up to the await in errorHandler(): try { await next() }
ErrMwStart ==
    /\ ehmRun.pc = "idle"
    /\ ehmRun' = [ehmRun EXCEPT !.pc = "next"]
    /\ UNCHANGED <<outsideErrMw, ehmOpts>>

\* the code below (the handler here) runs: it may set a status, and it
\* returns a Response, returns nothing, or throws
ErrMwDownstream(status, out, value) ==
    /\ ehmRun.pc = "next"
    /\ LET ctx == [status |-> status, headers |-> NoHeaders]
           handled == CtxJson(ctx, <<"h", 1>>, 2, 0, NoBody)
       IN  ehmRun' = [ehmRun EXCEPT
                        !.status = status,
                        !.response = IF out = "Response" THEN handled ELSE @,
                        !.thrown = IF out = "throw"
                                   THEN [caught |-> TRUE,
                                         isError |-> value.isError,
                                         message |-> value.message]
                                   ELSE @,
                        !.pc = IF out = "throw" THEN "caught" ELSE "resumed"]
    /\ UNCHANGED <<outsideErrMw, ehmOpts>>

\* await next() resolved: the try block and the middleware end
ErrMwResumes ==
    /\ ehmRun.pc = "resumed"
    /\ ehmRun' = [ehmRun EXCEPT !.pc = "returned", !.returned = Nothing]
    /\ UNCHANGED <<outsideErrMw, ehmOpts>>

\* the catch block: the onError option if given, then the default handling
\* unless onError resolved
ErrMwCatches ==
    /\ ehmRun.pc = "caught"
    /\ IF ehmOpts.onError = "resolves"
       THEN ehmRun' = [ehmRun EXCEPT !.pc = "returned", !.returned = Nothing]
       ELSE LET made == ErrMwResponse(ehmOpts, AsError(ehmRun.thrown))
            IN  ehmRun' = [ehmRun EXCEPT !.pc = "returned",
                                         !.status = ehmOpts.defaultStatus,
                                         !.made = made,
                                         !.returned = ErrMwReturns(made)]
    /\ UNCHANGED <<outsideErrMw, ehmOpts>>

\* executeMiddlewareChain and handleRequest after the middleware returned
ErrMwChainReturns ==
    /\ ehmRun.pc = "returned"
    /\ LET frame == [pos |-> 1, name |-> <<"errorHandler()">>, calls |-> 1,
                     catching |-> FALSE]
           resp == IF NextAssigns(frame, 1, ehmRun.returned)
                   THEN ehmRun.returned ELSE ehmRun.response
       IN  ehmRun' = [ehmRun EXCEPT !.pc = "done", !.response = resp,
                                    !.result = OrNoResponse(resp)]
    /\ UNCHANGED <<outsideErrMw, ehmOpts>>

InitErrMw ==
    /\ mPattern = <<>>
    /\ mPath = <<>>
    /\ mResult = Null
    /\ mDone = FALSE
    /\ AppNew
    /\ devConfig = "absent"
    /\ development = ConfigDevelopment(devConfig)
    /\ ReqIdle
    /\ MountIdle
    /\ IsoIdle
    /\ BodyIdle
    /\ RateIdle
    /\ DecFresh
    /\ CorsIdle
    /\ ehmOpts \in [defaultStatus : {500, 400}, includeStack : BOOLEAN,
                     onError : {"none", "resolves", "throws"}]
    /\ ErrMwFresh

NextErrMw ==
    \/ ErrMwStart
    \/ \E status \in {DefaultStatus} \cup StatusCodes,
          out \in {"Response", "void", "throw"}, value \in Thrown :
          ErrMwDownstream(status, out, value)
    \/ ErrMwResumes
    \/ ErrMwCatches
    \/ ErrMwChainReturns

SpecErrMw == InitErrMw /\ [][NextErrMw]_vars

\* --------------------------------------------------------------- decorators
MaxDecorations == 3     \* decorators applied to the methods of the class

outsideDec ==
    <<matchVars, isoVars, configVars, bodyVars, rateVars, ehmVars, corsVars,
      mountVars, appVars, reqVars>>

\* the methods of the controller class that are decorated
PropertyKeys == {"list", "show"}
\* the middleware lists given to @UseMiddleware
UsedMiddlewares == {<<"u1">>, <<"u2">>}

Declared(used, key) == IF key \in DOMAIN used THEN used[key] ELSE <<>>

\* the decorators applied so far: HTTP-method decorators and @UseMiddleware
RECURSIVE UsesOf(_, _)
UsesOf(used, keys) ==
    IF keys = {} THEN 0
    ELSE LET k == CHOOSE x \in keys : TRUE
         IN  Len(used[k]) + UsesOf(used, keys \ {k})

Decorations == Len(decMeta) + UsesOf(decUsed, DOMAIN decUsed)

\* existingRoutes.findIndex((r) => r.propertyKey === propertyKey), 0 if none
RECURSIVE RouteIndexFrom(_, _, _)
RouteIndexFrom(meta, key, i) ==
    IF i > Len(meta) THEN 0
    ELSE IF meta[i].propertyKey = key THEN i
    ELSE RouteIndexFrom(meta, key, i + 1)

\* @Get(path, ...middlewares), @Post(...), ... applied to the method key:
\* routes.push({ method, path, propertyKey, middlewares })
DecRoute(method, path, key, mws) ==
    /\ Decorations < MaxDecorations
    /\ decMeta' = Append(decMeta, [method |-> method, path |-> path,
                                   propertyKey |-> key, middlewares |-> mws])
    /\ UNCHANGED <<outsideDec, decPending, decUsed>>

\* @UseMiddleware(...middlewares) applied to the method key
DecUseMiddleware(key, mws) ==
    /\ Decorations < MaxDecorations
    /\ LET routeIndex == RouteIndexFrom(decMeta, key, 1)
       IN  IF routeIndex > 0
           THEN /\ decMeta' = [decMeta EXCEPT ![routeIndex].middlewares = @ \o mws]
                /\ UNCHANGED decPending
           ELSE /\ decPending' = AssignParam(decPending, key, mws)
                /\ UNCHANGED decMeta
    /\ decUsed' = AssignParam(decUsed, key, Declared(decUsed, key) \o mws)
    /\ UNCHANGED outsideDec

\* getRouteMetadata(ctor)
getRouteMetadata == decMeta

InitDec ==
    /\ mPattern = <<>>
    /\ mPath = <<>>
    /\ mResult = Null
    /\ mDone = FALSE
    /\ AppNew
    /\ devConfig = "absent"
    /\ development = ConfigDevelopment(devConfig)
    /\ ReqIdle
    /\ MountIdle
    /\ IsoIdle
    /\ BodyIdle
    /\ RateIdle
    /\ ErrMwIdle
    /\ CorsIdle
    /\ DecFresh

NextDec ==
    \/ \E method \in {"GET", "POST"}, path \in AppPatterns,
          key \in PropertyKeys, n \in 0..MaxRouteMw :
          DecRoute(method, path, key, RouteMws(n))
    \/ \E key \in PropertyKeys, mws \in UsedMiddlewares :
          DecUseMiddleware(key, mws)

SpecDec == InitDec /\ [][NextDec]_vars

\* -------------------------------------------------------------------- cors()
outsideCors ==
    <<matchVars, isoVars, configVars, bodyVars, rateVars, ehmVars, decVars,
      mountVars, appVars, reqVars>>

\* the origin option: true, false, a string, or an array of strings
CorsOrigins == {"true", "false", "string", "array"}
\* the request's Origin header: none, one the array holds, another one
RequestOrigins == {"none", "listed", "other"}
CorsMethods == {"GET", "POST", "OPTIONS"}

\* cors() up to the test of the method: the context.header calls
CorsHeaders(cfg, req, headers) ==
    LET h1 == CASE cfg.origin = "true" ->
                      HeadersSet(headers, "Access-Control-Allow-Origin", "*")
                [] cfg.origin = "string" ->
                      HeadersSet(headers, "Access-Control-Allow-Origin",
                                 "configured")
                [] cfg.origin = "array" /\ req.origin = "listed" ->
                      HeadersSet(headers, "Access-Control-Allow-Origin",
                                 req.origin)
                [] OTHER -> headers
        h2 == HeadersSet(h1, "Access-Control-Allow-Methods", "methods")
        h3 == HeadersSet(h2, "Access-Control-Allow-Headers", "allowedHeaders")
    IN  IF cfg.credentials
        THEN HeadersSet(h3, "Access-Control-Allow-Credentials", "true")
        ELSE h3

\* Context.text / Context.json / handleNotFound: a Response with the pending
\* status and headers
CorsResponse(by, status, headers, contentType) ==
    [type |-> "Response", by |-> by, status |-> status,
     headers |-> HeadersSet(headers, "content-type", contentType)]

\* handleRequest up to the first middleware: a request without a route for
\* its method and path is answered by handleNotFound
CorsHandleRequest ==
    /\ corsRun.pc = "idle"
    /\ IF corsReq.method \in corsCfg.routeMethods
       THEN corsRun' = [corsRun EXCEPT !.pc = "cors"]
       ELSE corsRun' = [corsRun EXCEPT
                          !.pc = "done",
                          !.status = 404,
                          !.result = CorsResponse("handleNotFound", 404,
                                                  corsRun.headers,
                                                  "application/json")]
    /\ UNCHANGED <<outsideCors, corsCfg, corsReq>>

\* cors(): the headers, then the preflight Response or the continuation
CorsMiddleware ==
    /\ corsRun.pc = "cors"
    /\ LET headers == CorsHeaders(corsCfg, corsReq, corsRun.headers)
       IN  IF corsReq.method = "OPTIONS"
           THEN corsRun' = [corsRun EXCEPT
                              !.pc = "done",
                              !.headers = headers,
                              !.status = 204,
                              !.result = CorsResponse("cors", 204, headers,
                                                      "text/plain")]
           ELSE corsRun' = [corsRun EXCEPT !.pc = "handler",
                                           !.headers = headers,
                                           !.calls = @ + 1]
    /\ UNCHANGED <<outsideCors, corsCfg, corsReq>>

\* the route handler returns context.json(...), cors() returns nothing and
\* the chain ends
CorsHandler ==
    /\ corsRun.pc = "handler"
    /\ corsRun' = [corsRun EXCEPT
                      !.pc = "done",
                      !.handlerRan = TRUE,
                      !.result = CorsResponse("handler", corsRun.status,
                                              corsRun.headers,
                                              "application/json")]
    /\ UNCHANGED <<outsideCors, corsCfg, corsReq>>

InitCors ==
    /\ mPattern = <<>>
    /\ mPath = <<>>
    /\ mResult = Null
    /\ mDone = FALSE
    /\ AppNew
    /\ devConfig = "absent"
    /\ development = ConfigDevelopment(devConfig)
    /\ ReqIdle
    /\ MountIdle
    /\ IsoIdle
    /\ BodyIdle
    /\ RateIdle
    /\ ErrMwIdle
    /\ DecFresh
    /\ corsCfg \in [origin : CorsOrigins, credentials : BOOLEAN,
                     routeMethods : SUBSET {"GET", "OPTIONS"}]
    /\ corsReq \in [method : CorsMethods, origin : RequestOrigins]
    /\ CorsFresh

NextCors ==
    \/ CorsHandleRequest
    \/ CorsMiddleware
    \/ CorsHandler

SpecCors == InitCors /\ [][NextCors]_vars

\* ------------------------------------------- mounting: Router, addRouter
MaxSubRoutes == 2       \* routes registered on the router
MaxRouterMw == 1        \* router.use calls
MaxMounts == 1          \* addRouter calls

RouterPrefixes == {<<>>, <<"/", "v">>}
MountPrefixes == {<<"/", "p">>}
\* the paths looked up: a request path below the router's prefix, and that
\* below a mount prefix
LookupPaths(prefix) ==
    {mp \o prefix \o <<"/", "a">> : mp \in MountPrefixes \cup {<<>>}}

\* the patterns of the routes registered on the application itself: those of
\* the dispatcher, and one that also matches the paths below a mount prefix
MountAppPatterns == AppPatterns \cup {<<"/", "*">>}

\* the handler of the k-th route registered on the router
RouterHandler(k) == <<"s", k>>
RouterMw(k) == <<"m", k>>

\* number of routes registered on the application itself
OwnRoutes(rs) == Cardinality({k \in 1..Len(rs) : rs[k].handler[1] = "h"})

\* variant: the route list is read by reference, so that a later
\* registration on a mounted router reaches the application too
AppRoutesLive(appRoutes, ms, route) ==
    IF ms = <<>> THEN appRoutes
    ELSE Append(appRoutes, [route EXCEPT !.path = ms[Len(ms)].prefix \o route.path])

\* the application's route list after Router.addRoute on another router:
\* this.routes.push touches that router's list only
AppRoutesOnRouterAdd(appRoutes, ms, route) == appRoutes

\* variant: the prefix is not prepended
MountedRouteNoPrefix(path, route) ==
    [method |-> route.method, path |-> route.path,
     handler |-> route.handler, middlewares |-> route.middlewares]

\* addRouter: the new route made of a route of the router
MountedRoute(path, route) ==
    [method |-> route.method, path |-> path \o route.path,
     handler |-> route.handler, middlewares |-> route.middlewares]

\* variant: the mounted routes are put before the application's
RoutesOnAddRouterFront(appRoutes, mounted) == mounted \o appRoutes

\* addRouter: this.appRouter.getRoutes().push(newRoute), route by route
RoutesOnAddRouter(appRoutes, mounted) == appRoutes \o mounted

\* variant: the matched route is moved to the front of the list
RoutesMoveToFront(rs, method, path) ==
    LET m == findRoute(rs, method, path)
    IN  IF ~m.found THEN rs
        ELSE <<m.route>> \o SubSeq(rs, 1, m.index - 1)
                         \o SubSeq(rs, m.index + 1, Len(rs))

\* the route list after findRoute, which assigns to nothing
RoutesAfterFindRoute(rs, method, path) == rs

\* Router.use on the router
RouterUse(middleware) ==
    /\ pc = "setup"
    /\ Len(router.middlewares) < MaxRouterMw
    /\ router' = [router EXCEPT !.middlewares = Append(@, middleware)]
    /\ lookup' = NoLookup
    /\ UNCHANGED <<matchVars, otherVars, mounts, appVars, reqVars>>

\* Router.get, post, ... on the router
RouterAddRoute(method, path, handler, mws) ==
    /\ pc = "setup"
    /\ Len(router.routes) < MaxSubRoutes
    /\ LET route == NewRoute(router.prefix, router.middlewares, method, path,
                             handler, mws)
       IN  /\ router' = [router EXCEPT !.routes = Append(@, route)]
           /\ routes' = AppRoutesOnRouterAdd(routes, mounts, route)
    /\ lookup' = NoLookup
    /\ UNCHANGED <<matchVars, otherVars, mounts, globalMiddlewares, errorHandler,
                   development, reqVars>>

\* NinoApp.get on the application
AppGet(path, handler) ==
    /\ pc = "setup"
    /\ OwnRoutes(routes) < MaxRoutes
    /\ routes' = Append(routes, NewRoute(<<>>, <<>>, "GET", path, handler, <<>>))
    /\ lookup' = NoLookup
    /\ UNCHANGED <<matchVars, otherVars, router, mounts, globalMiddlewares, errorHandler,
                   development, reqVars>>

\* NinoApp.addRouter(path, router)
AddRouter(path) ==
    /\ pc = "setup"
    /\ Len(mounts) < MaxMounts
    /\ routes' = RoutesOnAddRouter(routes,
                                   [k \in 1..Len(router.routes) |->
                                       MountedRoute(path, router.routes[k])])
    /\ mounts' = Append(mounts, [prefix |-> path, at |-> Len(routes),
                                 copied |-> router.routes])
    /\ lookup' = NoLookup
    /\ UNCHANGED <<matchVars, otherVars, router, globalMiddlewares, errorHandler,
                   development, reqVars>>

\* findRoute(method, path) on the application's router or on the router
FindRoute(on, method, path) ==
    /\ pc = "setup"
    /\ LET table == IF on = "app" THEN routes ELSE router.routes
           after == RoutesAfterFindRoute(table, method, path)
           res == findRoute(table, method, path)
           again == /\ lookup.on = on
                    /\ lookup.method = method
                    /\ lookup.path = path
       IN  /\ routes' = IF on = "app" THEN after ELSE routes
           /\ router' = IF on = "app" THEN router
                        ELSE [router EXCEPT !.routes = after]
           /\ lookup' = [on |-> on, method |-> method, path |-> path,
                         result |-> res,
                         unchanged |-> lookup.unchanged /\ after = table,
                         repeated |-> again,
                         same |-> again => res = lookup.result]
    /\ UNCHANGED <<matchVars, otherVars, mounts, globalMiddlewares, errorHandler,
                   development, reqVars>>

InitMount ==
    /\ mPattern = <<>>
    /\ mPath = <<>>
    /\ mResult = Null
    /\ mDone = FALSE
    /\ AppNew
    /\ devConfig = "absent"
    /\ development = ConfigDevelopment(devConfig)
    /\ ReqIdle
    /\ router \in {NewRouter(prefix) : prefix \in RouterPrefixes}
    /\ mounts = <<>>
    /\ lookup = NoLookup
    /\ OthersIdle

NextMount ==
    \/ RouterUse(RouterMw(Len(router.middlewares) + 1))
    \/ \E method \in Methods, path \in AppPatterns :
          RouterAddRoute(method, path, RouterHandler(Len(router.routes) + 1),
                         RouteMws(MaxRouteMw))
    \/ \E path \in MountAppPatterns :
          AppGet(path, <<"h", OwnRoutes(routes) + 1>>)
    \/ \E path \in MountPrefixes : AddRouter(path)
    \/ \E on \in {"app", "router"}, method \in ReqMethods,
          path \in LookupPaths(router.prefix) :
          FindRoute(on, method, path)

SpecMount == InitMount /\ [][NextMount]_vars


\* --------------------------------- concurrent requests: handleRequest calls
\* paths of the concurrent requests: two that the route matches, with
\* different params, and one that it does not match
IsoPaths == ReqPaths \cup {<<"/">>}
\* the status request r's user code sets, and the entry it puts into state
IsoStatusOf(r) == 200 + r

\* variant: one Context object serves every request
ContextShared(r) == 1

\* the Context object of request r: const context = new Context(request)
ContextOf(r) == r

\* a Response made in the handleRequest call of request r from a Context
IsoResponse(r, ctx, by) ==
    [type |-> "Response", owner |-> r, by |-> by, status |-> ctx.status,
     params |-> ctx.params, state |-> ctx.state]

IsoOrNoResponse(r, resp) ==
    IF resp.type = "none"
    THEN IsoResponse(r, [IsoNewCtx EXCEPT !.status = 500], "fallback")
    ELSE resp

\* handleRequest of request r up to the first invocation of user code
IsoHandleRequest(r, path) ==
    /\ isoReq[r].pc = "idle"
    /\ LET c == ContextOf(r)
           match == findRoute(routes, "GET", path)
       IN  IF ~match.found
           THEN /\ isoCtx' = [isoCtx EXCEPT ![c] = [IsoNewCtx EXCEPT !.status = 404]]
                /\ isoReq' = [isoReq EXCEPT ![r] =
                      [@ EXCEPT !.pc = "done", !.path = path,
                                !.result = IsoResponse(r,
                                    [IsoNewCtx EXCEPT !.status = 404],
                                    "handleNotFound")]]
           ELSE LET n == Len(EffectiveMiddlewares(globalMiddlewares,
                                                   match.route.middlewares))
                IN  /\ isoCtx' = [isoCtx EXCEPT ![c] =
                          [IsoNewCtx EXCEPT !.params = match.params]]
                    /\ isoReq' = [isoReq EXCEPT ![r] =
                          [@ EXCEPT !.pc = "in", !.path = path, !.found = TRUE,
                                    !.mws = n,
                                    !.index = IF 0 < n THEN 1 ELSE 0,
                                    !.depth = 1]]
    /\ UNCHANGED <<matchVars, extraVars, mountVars, appVars, reqVars>>

\* user code of request r calls context.status
IsoStatus(r) ==
    /\ isoReq[r].pc \in {"in", "out"}
    /\ isoCtx[ContextOf(r)].status # IsoStatusOf(r)
    /\ isoCtx' = [isoCtx EXCEPT ![ContextOf(r)].status = IsoStatusOf(r)]
    /\ UNCHANGED <<matchVars, extraVars, mountVars, appVars, reqVars, isoReq>>

\* user code of request r writes to context.state
IsoState(r) ==
    /\ isoReq[r].pc \in {"in", "out"}
    /\ r \notin isoCtx[ContextOf(r)].state
    /\ isoCtx' = [isoCtx EXCEPT ![ContextOf(r)].state = @ \cup {r}]
    /\ UNCHANGED <<matchVars, extraVars, mountVars, appVars, reqVars, isoReq>>

\* the running middleware of request r invokes its continuation and awaits it
IsoNext(r) ==
    /\ isoReq[r].pc = "in"
    /\ isoReq[r].depth <= isoReq[r].mws
    /\ isoReq' = [isoReq EXCEPT ![r] =
          [@ EXCEPT !.index = IF @ < isoReq[r].mws THEN @ + 1 ELSE @,
                    !.depth = @ + 1]]
    /\ UNCHANGED <<matchVars, extraVars, mountVars, appVars, reqVars, isoCtx>>

\* the running invocation of request r returns a Response made with
\* context.json, or nothing
IsoReturn(r, out) ==
    /\ isoReq[r].pc \in {"in", "out"}
    /\ LET q == isoReq[r]
           resp == IF out = "Response"
                   THEN IsoResponse(r, isoCtx[ContextOf(r)], "json")
                   ELSE q.response
       IN  isoReq' = [isoReq EXCEPT ![r] =
              IF q.depth = 1
              THEN [q EXCEPT !.pc = "done", !.depth = 0, !.response = resp,
                             !.result = IsoOrNoResponse(r, resp)]
              ELSE [q EXCEPT !.pc = "out", !.depth = @ - 1, !.response = resp]]
    /\ UNCHANGED <<matchVars, extraVars, mountVars, appVars, reqVars, isoCtx>>

\* the running invocation of request r throws an Error, which no middleware
\* catches: handleError without custom handler
IsoThrow(r) ==
    /\ isoReq[r].pc \in {"in", "out"}
    /\ LET c == ContextOf(r)
           ctx == [isoCtx[c] EXCEPT !.status = 500]
       IN  /\ isoCtx' = [isoCtx EXCEPT ![c] = ctx]
           /\ isoReq' = [isoReq EXCEPT ![r] =
                 [@ EXCEPT !.pc = "done", !.depth = 0,
                           !.result = IsoResponse(r, ctx, "handleError")]]
    /\ UNCHANGED <<matchVars, extraVars, mountVars, appVars, reqVars>>

\* an application with one global middleware and one route with a middleware
\* of its own
InitIso ==
    /\ mPattern = <<>>
    /\ mPath = <<>>
    /\ mResult = Null
    /\ mDone = FALSE
    /\ routes = <<NewRoute(<<>>, <<>>, "GET", <<"/", ":", "i">>, <<"h", 1>>,
                           RouteMws(1))>>
    /\ globalMiddlewares = <<GlobalMw(1)>>
    /\ errorHandler = "unset"
    /\ devConfig = "absent"
    /\ development = ConfigDevelopment(devConfig)
    /\ ReqIdle
    /\ MountIdle
    /\ OthersIdle

NextIso ==
    \E r \in Requests :
        \/ \E path \in IsoPaths : IsoHandleRequest(r, path)
        \/ IsoStatus(r)
        \/ IsoState(r)
        \/ IsoNext(r)
        \/ \E out \in {"Response", "void"} : IsoReturn(r, out)
        \/ IsoThrow(r)

SpecIso == InitIso /\ [][NextIso]_vars


\* =================================================================== claims
Count(seq, c) == Cardinality({k \in 1..Len(seq) : seq[k] = c})

\* whether part occurs in seq as a contiguous subsequence
Contains(seq, part) ==
    \E k \in 0..(Len(seq) - Len(part)) : SubSeq(seq, k + 1, k + Len(part)) = part

\* some registered route has the method and a pattern matching the path
SomeRouteMatches(method, path) ==
    \E i \in 1..Len(routes) :
        routes[i].method = method /\ matchPath(routes[i].path, path).ok

\* ----------------------------------------------------------------------- C1
\* C1: for every request handleRequest resolves with exactly one Response,
\* never with a value that is not a Response and never more than once.
C1_ExactlyOneResponse ==
    /\ pc = "done" => (result.type = "Response" /\ returns = 1)
    /\ pc # "done" => returns = 0

\* ----------------------------------------------------------------------- C2
\* C2: findRoute returns the earliest-registered route whose method is the
\* request's and whose pattern matches the path; no earlier route with that
\* method matches, whichever pattern is the more specific.
C2_FirstMatchWins ==
    (pc # "setup" /\ matched.found) =>
        /\ matched.index \in 1..Len(routes)
        /\ matched.route = routes[matched.index]
        /\ matched.route.method = request.method
        /\ matchPath(matched.route.path, request.path).ok
        /\ \A j \in 1..(matched.index - 1) :
              ~(routes[j].method = request.method
                /\ matchPath(routes[j].path, request.path).ok)

\* the parameter route registered first wins over the literal route
C2_Witness ==
    /\ pc = "done"
    /\ matched.found
    /\ Len(routes) = 2
    /\ matched.index = 1
    /\ routes[1].path = <<"/", ":", "i">>
    /\ routes[2].path = <<"/", "a">>
    /\ routes[2].method = request.method
    /\ matchPath(routes[2].path, request.path).ok

\* ----------------------------------------------------------------------- C3
\* C3: the middleware of a matched request start in the order global
\* middleware (as added with use), then the route's own (as registered); no
\* global middleware starts after a route middleware; the handler starts
\* after all of them; and when no middleware returns without invoking its
\* continuation and nothing is thrown, all of them and then the handler run.
C3_MiddlewareOrder ==
    (pc # "setup" /\ matched.found) =>
        LET expected == globalMiddlewares \o matched.route.middlewares
            n == Len(expected)
            mwStarted == SelectSeq(started, LAMBDA x : x[1] # "h")
        IN  /\ Len(mwStarted) <= n
            /\ mwStarted = SubSeq(expected, 1, Len(mwStarted))
            /\ \A k \in 1..Len(started) :
                  IF k <= n THEN started[k] = expected[k]
                  ELSE started[k] = matched.route.handler
            /\ (pc = "done" /\ ~skipped /\ thrown = {}) =>
                  (Len(started) >= n + 1
                   /\ SubSeq(started, 1, n + 1) = expected \o <<matched.route.handler>>)

\* global [g1, g2] and route [r1] ran in the order g1, g2, r1, handler
C3_Witness ==
    /\ pc = "done"
    /\ matched.found
    /\ ~skipped
    /\ thrown = {}
    /\ globalMiddlewares = <<GlobalMw(1), GlobalMw(2)>>
    /\ started = <<GlobalMw(1), GlobalMw(2), <<"r", 1>>, matched.route.handler>>

\* ----------------------------------------------------------------------- C4
\* C4 as stated: once a middleware B has returned a Response without invoking
\* its continuation, nothing after B ever starts and the request's Response
\* is exactly B's.
C4_ShortCircuitOriginal ==
    (pc = "done" /\ short.is) =>
        (Len(started) = short.at /\ result = short.response)

\* C4 as amended: when a middleware B returns a Response without invoking its
\* continuation, next() makes it the chain's response and starts nothing;
\* nothing after B starts unless a middleware before B invokes its
\* continuation again; and the chain returns B's Response unless response is
\* assigned again afterwards or an error leaves the chain.
C4_ShortCircuit ==
    short.is =>
        /\ short.assigned
        /\ short.response.type = "Response"
        /\ short.response.pos = short.pos
        /\ ~short.resumed => Len(started) = short.at
        /\ ~short.overridden => response = short.response
        /\ (pc = "done" /\ ~error.caught /\ ~short.overridden) =>
              result = short.response

\* B = the second of three middleware short-circuits
C4_Witness ==
    /\ pc = "done"
    /\ short.is
    /\ short.pos = 2
    /\ Len(middlewares) = 3
    /\ ~short.resumed
    /\ ~short.overridden
    /\ ~error.caught
    /\ Len(started) = 2
    /\ result = short.response

\* ----------------------------------------------------------------------- C5
\* C5: a request gets the not-found Response iff no registered route has its
\* method and a pattern matching its path; that Response has status 404 and
\* a JSON body whose message names the method and the path.
C5_NotFoundIff ==
    pc = "done" =>
        LET notFound == result.type = "Response" /\ result.by = <<"handleNotFound">>
        IN  /\ notFound <=> ~SomeRouteMatches(request.method, request.path)
            /\ notFound => /\ result.status = 404
                           /\ result.body.error = "Not Found"
                           /\ Contains(result.body.message, <<request.method>>)
                           /\ Contains(result.body.message, request.path)

\* not found although a route has a matching pattern, with another method
C5_Witness ==
    /\ pc = "done"
    /\ result.type = "Response"
    /\ result.by = <<"handleNotFound">>
    /\ result.status = 404
    /\ \E i \in 1..Len(routes) :
          routes[i].method # request.method
          /\ matchPath(routes[i].path, request.path).ok

\* ----------------------------------------------------------------------- C6
\* C6 as stated: when the handler or a middleware threw an Error with message
\* m and no custom error handler is registered, the Response has status 500
\* and carries m.
C6_ThrowGives500Original ==
    (pc = "done" /\ errorHandler = "unset") =>
        \A t \in thrown :
            t.isError => /\ result.type = "Response"
                         /\ result.status = 500
                         /\ result.body.message = <<t.message>>

\* C6 as amended: when an Error with message m leaves the middleware chain
\* (no middleware caught it around its continuation call) and no custom error
\* handler is registered, the Response has status 500 and carries m, whatever
\* status was pending.
C6_UncaughtErrorGives500 ==
    (pc = "done" /\ errorHandler = "unset" /\ error.caught /\ error.isError) =>
        /\ result.type = "Response"
        /\ result.status = 500
        /\ result.body.error = "Internal Server Error"
        /\ result.body.message = <<error.message>>

\* the Error left the chain while status 201 was pending
C6_Witness ==
    /\ pc = "done"
    /\ errorHandler = "unset"
    /\ error.caught
    /\ error.isError
    /\ response.type = "Response"
    /\ response.status = 201
    /\ result.status = 500
    /\ result.body.message = <<"boom">>

\* ----------------------------------------------------------------------- C7
\* C7: when the custom error handler throws or returns a rejected promise,
\* handleRequest still returns once, with the default 500 Response carrying
\* the original error's message.
C7_HandlerFailureSwallowed ==
    (pc = "done" /\ ehOutcome \in {"throw", "reject"}) =>
        /\ returns = 1
        /\ result.type = "Response"
        /\ result.by = <<"handleError">>
        /\ result.status = 500
        /\ result.body.message = <<error.message>>

C7_Witness ==
    /\ pc = "done"
    /\ ehOutcome = "reject"
    /\ result.type = "Response"
    /\ result.status = 500
    /\ result.body.message = <<"boom">>

\* ----------------------------------------------------------------------- C8
\* C8: whenever a value thrown during request processing reaches the
\* dispatcher and a custom error handler is registered, that handler is
\* invoked, whatever the value; a Response it produces is the one returned.
C8_HandlerAlwaysInvoked ==
    (pc = "done" /\ error.caught /\ errorHandler = "set") =>
        /\ ehOutcome # ""
        /\ ehOutcome \in {"Response", "promiseResponse"} =>
              (result.type = "Response" /\ result.by = <<"errorHandler">>)

\* ----------------------------------------------------------------------- C9
\* C9: a pattern without wildcard matches only paths with as many segments
\* as it has itself (a parameter segment takes exactly one non-empty segment,
\* and the match is anchored at both ends).
C9_SegmentCount ==
    (mDone /\ mResult.ok /\ Count(mPattern, "*") = 0) =>
        Count(mPath, "/") = Count(mPattern, "/")

\* ---------------------------------------------------------------------- C10
\* the keys and the captures of the match under check
MKeys == pathToRegex(mPattern).keys
MGroups == StringMatch(mPath, pathToRegex(mPattern).pattern).groups

\* the pattern with every parameter segment replaced by the value bound to
\* its name
RECURSIVE Substitute(_, _, _)
Substitute(pattern, i, params) ==
    IF i > Len(pattern) THEN <<>>
    ELSE IF pattern[i] = ":" /\ NonSlashRun(pattern, i + 1) > 0
         THEN LET n == NonSlashRun(pattern, i + 1)
              IN  params[SubSeq(pattern, i + 1, i + n)]
                      \o Substitute(pattern, i + n + 1, params)
         ELSE <<pattern[i]>> \o Substitute(pattern, i + 1, params)

DistinctKeys(keys) ==
    \A i, j \in 1..Len(keys) : keys[i] = keys[j] => i = j

\* C10 as stated: on a successful match the i-th parameter name is bound to
\* the substring captured by the i-th parameter segment.
C10_IthNameIthCaptureOriginal ==
    (mDone /\ mResult.ok) =>
        \A i \in 1..Len(MKeys) : mResult.params[MKeys[i]] = MGroups[i]

\* C10 as amended: on a successful match the i-th parameter name is bound to
\* the raw substring captured by the i-th parameter segment unless a later
\* parameter segment has the same name; with distinct names and neither "*"
\* nor "." in the pattern, putting the bound values back into the pattern
\* gives the path; /users/:id/posts/:postId against /users/42/posts/7 gives
\* exactly {id: "42", postId: "7"}.
C10_ParamExtraction ==
    (mDone /\ mResult.ok) =>
        /\ \A i \in 1..Len(MKeys) :
              (\A j \in (i + 1)..Len(MKeys) : MKeys[j] # MKeys[i]) =>
                  mResult.params[MKeys[i]] = MGroups[i]
        /\ (DistinctKeys(MKeys) /\ Count(mPattern, "*") = 0
            /\ Count(mPattern, ".") = 0) =>
              Substitute(mPattern, 1, mResult.params) = mPath
        /\ (mPattern = PatUsersPosts /\ mPath = PathUsersPosts) =>
              /\ DOMAIN mResult.params = {<<"i","d">>, <<"p","o","s","t","I","d">>}
              /\ mResult.params[<<"i","d">>] = <<"4","2">>
              /\ mResult.params[<<"p","o","s","t","I","d">>] = <<"7">>

C10_Witness ==
    /\ mDone
    /\ mResult.ok
    /\ mPattern = PatUsersPosts
    /\ mPath = PathUsersPosts
    /\ mResult.params[<<"i","d">>] = <<"4","2">>
    /\ mResult.params[<<"p","o","s","t","I","d">>] = <<"7">>

\* ---------------------------------------------------------------------- C11
\* the set of the elements of a sequence
Range(seq) == {seq[k] : k \in 1..Len(seq)}

\* C11: on a successful match params has a key for every parameter name of
\* the pattern and no other key, and every key is bound to a string: a
\* non-empty piece of the path without "/", or the empty string.
C11_AllKeysBound ==
    (mDone /\ mResult.ok) =>
        /\ DOMAIN mResult.params = Range(MKeys)
        /\ \A k \in DOMAIN mResult.params :
              LET v == mResult.params[k]
              IN  /\ DOMAIN v = 1..Len(v)
                  /\ \A n \in 1..Len(v) : v[n] \in Range(mPath) \ {"/"}
                  /\ v = <<>> \/ Contains(mPath, v)

\* both names of /users/:id/posts/:postId are keys, and the only keys
C11_Witness ==
    /\ mDone
    /\ mResult.ok
    /\ Len(MKeys) = 2
    /\ MKeys[1] # MKeys[2]
    /\ DOMAIN mResult.params = {MKeys[1], MKeys[2]}
    /\ \A k \in DOMAIN mResult.params : mResult.params[k] # <<>>

\* ---------------------------------------------------------------------- C12
\* Matching as the pattern rules state it: a ":" that begins a segment and
\* has a name takes one or more characters other than "/", a "*" takes any
\* characters, and every other character of the pattern takes exactly that
\* character of the path.
RECURSIVE LiteralMatch(_, _, _, _)
LiteralMatch(pattern, i, path, j) ==
    IF i > Len(pattern) THEN j = Len(path) + 1
    ELSE IF pattern[i] = "*"
         THEN \E k \in j..(Len(path) + 1) : LiteralMatch(pattern, i + 1, path, k)
    ELSE IF /\ pattern[i] = ":"
            /\ (i = 1 \/ pattern[i - 1] = "/")
            /\ NonSlashRun(pattern, i + 1) > 0
         THEN \E k \in 1..NonSlashRun(path, j) :
                 LiteralMatch(pattern, i + 1 + NonSlashRun(pattern, i + 1),
                              path, j + k)
    ELSE /\ j <= Len(path)
         /\ path[j] = pattern[i]
         /\ LiteralMatch(pattern, i + 1, path, j + 1)

\* C12: a path matches a pattern only if it has, at the position of every
\* character of the pattern that is neither part of a ":name" beginning a
\* segment nor a "*", exactly that character.
C12_LiteralCharacters ==
    (mDone /\ mResult.ok) => LiteralMatch(mPattern, 1, mPath, 1)

C14_Mounting ==
    /\ \A i \in 1..Len(mounts) :
          LET m == mounts[i]
          IN  /\ Len(routes) >= m.at + Len(m.copied)
              /\ SubSeq(router.routes, 1, Len(m.copied)) = m.copied
              /\ \A k \in 1..Len(m.copied) :
                    LET r == routes[m.at + k]
                        o == m.copied[k]
                    IN  /\ r.method = o.method
                        /\ r.path = m.prefix \o o.path
                        /\ r.handler = o.handler
                        /\ r.middlewares = o.middlewares
                        /\ (/\ lookup.on = "app"
                            /\ lookup.method = o.method
                            /\ matchPath(m.prefix \o o.path, lookup.path).ok) =>
                              (lookup.result.found /\ lookup.result.index <= m.at + k)
                        /\ (/\ lookup.on = "router"
                            /\ lookup.method = o.method
                            /\ matchPath(o.path, lookup.path).ok) =>
                              (lookup.result.found /\ lookup.result.index <= k)

\* the application's lookup of /p.../a has found the route copied from the
\* router, with the router's middleware and the route's own
C14_Witness ==
    /\ Len(mounts) = 1
    /\ mounts[1].prefix = <<"/", "p">>
    /\ lookup.on = "app"
    /\ lookup.result.found
    /\ lookup.result.route.handler = RouterHandler(1)
    /\ lookup.result.route.path = <<"/", "p">> \o router.routes[1].path
    /\ lookup.result.route.middlewares = <<RouterMw(1)>> \o RouteMws(MaxRouteMw)

\* ---------------------------------------------------------------------- C15
RECURSIVE MostCopied(_, _)
\* the largest number of routes an addRouter call has copied
MostCopied(ms, i) ==
    IF i > Len(ms) THEN 0
    ELSE LET rest == MostCopied(ms, i + 1)
         IN  IF Len(ms[i].copied) > rest THEN Len(ms[i].copied) ELSE rest

\* C15: a route registered on the router after addRouter is not among the
\* application's routes and no lookup of the application returns it; a route
\* registered on the application is never among the router's routes.
C15_OneTimeCopy ==
    /\ \A k \in 1..Len(router.routes) : router.routes[k].handler = RouterHandler(k)
    /\ Len(router.routes) <= MaxSubRoutes
    /\ \A j \in 1..Len(routes) :
          routes[j].handler[1] = "s" => routes[j].handler[2] <= MostCopied(mounts, 1)
    /\ (lookup.on = "app" /\ lookup.result.found
        /\ lookup.result.route.handler[1] = "s") =>
          lookup.result.route.handler[2] <= MostCopied(mounts, 1)
    /\ (lookup.on = "router" /\ lookup.result.found) =>
          lookup.result.route.handler[1] = "s"

\* one route was copied, then the router and the application each got another
C15_Witness ==
    /\ Len(mounts) = 1
    /\ Len(mounts[1].copied) = 1
    /\ Len(router.routes) = 2
    /\ Len(routes) > mounts[1].at + 1
    /\ routes[Len(routes)].handler[1] = "h"
    /\ lookup.on = "app"
    /\ lookup.method = router.routes[2].method
    /\ matchPath(mounts[1].prefix \o router.routes[2].path, lookup.path).ok
    /\ ~lookup.result.found

C17_NoResponseDefault ==
    (/\ pc = "done"
     /\ matched.found
     /\ ~error.caught
     /\ response = Nothing
     /\ ~values.mw
     /\ ~values.handler) =>
        /\ result = NoResponseGenerated
        /\ result.type = "Response"
        /\ result.status = 500
        /\ result.body.message = <<"No response generated">>

\* the first of three middleware returned nothing without invoking its
\* continuation
C17_Witness ==
    /\ pc = "done"
    /\ matched.found
    /\ thrown = {}
    /\ skipped
    /\ Len(middlewares) = 3
    /\ Len(started) = 1
    /\ response = Nothing
    /\ ~values.mw
    /\ result = NoResponseGenerated

\* ---------------------------------------------------------------------- C18
\* C18 as stated: a value that is neither a Response nor undefined, returned
\* by the handler or by a middleware, is wrapped into a JSON Response that is
\* the chain's result (here: when nothing returned a Response of its own).
C18_ValueWrappedOriginal ==
    (/\ pc = "done"
     /\ ~error.caught
     /\ values.mw \/ values.handler
     /\ response = Nothing \/ response.by = <<"json">>) =>
        (result.type = "Response" /\ result.by = <<"json">>)

\* C18 as amended: a value the handler returns that is neither a Response nor
\* undefined is wrapped by context.json into a Response, which is the chain's
\* response until a Response is returned after it and the chain's result if
\* none is; a value a middleware returns that is not a Response is not
\* wrapped and changes nothing.
C18_HandlerValueWrapped ==
    /\ response.type # "value"
    /\ values.handler =>
          /\ response.type = "Response"
          /\ response.by = <<"json">>
          /\ response.pos = Len(middlewares) + 1
          /\ response.status \in {DefaultStatus} \cup StatusCodes
    /\ (response.type = "Response" /\ response.by = <<"json">>) =>
          (values.handler /\ response.pos = Len(middlewares) + 1)
    /\ (pc = "done" /\ ~error.caught /\ values.handler) => result = response
    /\ (pc = "done" /\ matched.found /\ ~error.caught /\ response = Nothing) =>
          result = NoResponseGenerated

\* the handler, behind a middleware, returned a value while status 201 was
\* pending
C18_Witness ==
    /\ pc = "done"
    /\ ~error.caught
    /\ values.handler
    /\ Len(middlewares) >= 1
    /\ result.type = "Response"
    /\ result.by = <<"json">>
    /\ result.pos = Len(middlewares) + 1
    /\ result.status = 201

\* ---------------------------------------------------------------------- C19
\* whether an invocation below the running one awaits its continuation inside
\* a try block
SomeCallerCatches == \E k \in 1..(Len(stack) - 1) : stack[k].catching
\* the innermost such invocation
InnermostCatcher ==
    CHOOSE k \in 1..(Len(stack) - 1) :
        stack[k].catching /\ \A j \in (k + 1)..(Len(stack) - 1) : ~stack[j].catching

\* a step in which user code throws a value not thrown before
ThrowStep == thrown' # thrown

\* C19: a value thrown by a middleware or by the handler (each awaiting its
\* continuation calls) is not caught by the chain: the throw starts nothing,
\* assigns no response and returns no result; control passes to the innermost
\* middleware that awaits its continuation inside a try block, or, when there
\* is none, to the dispatcher's catch, after which nothing more is started
\* and the request's result is the one handleError makes.
C19_ThrowPropagates ==
    /\ [](error.caught =>
            /\ stack = <<>>
            /\ pc \in {"handleError", "done"}
            /\ pc = "done" =>
                  result.by \in {<<"handleError">>, <<"errorHandler">>})
    /\ [][/\ error.caught => started' = started
          /\ ThrowStep =>
                /\ started' = started
                /\ response' = response
                /\ returns' = returns
                /\ result' = result
                /\ IF SomeCallerCatches
                   THEN /\ pc' = "chain"
                        /\ ~error'.caught
                        /\ Len(stack') = InnermostCatcher
                        /\ \A k \in 1..Len(stack') : stack'[k].pos = stack[k].pos
                   ELSE /\ pc' = "handleError"
                        /\ error'.caught
                        /\ stack' = <<>>]_vars

\* what the handler threw has passed three middleware, none of which caught
\* it, and reached the dispatcher
C19_Witness ==
    /\ pc = "handleError"
    /\ error.caught
    /\ Len(middlewares) = 3
    /\ Len(started) = 4
    /\ stack = <<>>
    /\ response = Nothing
    /\ returns = 0

\* ---------------------------------------------------------------------- C20
\* C20: with every middleware awaiting its continuation, the invocations nest:
\* each running invocation was started by the one below it, which awaits it,
\* and stands later in the list; without repeated continuation calls the
\* running invocations are the first ones of the list, in list order; the
\* part of a middleware after its continuation runs only once the handler has
\* been started and everything started after the middleware has completed;
\* and an invocation that completes is the innermost one, so that the
\* after-parts run in reverse list order.
C20_OnionOrder ==
    /\ [](pc = "chain" =>
            /\ stack # <<>>
            /\ \A k \in 1..(Len(stack) - 1) :
                  /\ stack[k].pos < stack[k + 1].pos
                  /\ stack[k].calls > 0
            /\ repeats = 0 => \A k \in 1..Len(stack) : stack[k].pos = k
            /\ (Top(stack).calls > 0 /\ ~skipped /\ thrown = {}) =>
                  /\ Len(started) >= Len(middlewares) + 1
                  /\ started[Len(middlewares) + 1] = matched.route.handler
                  /\ \A k \in 1..Len(middlewares) : started[k] = middlewares[k])
    /\ [][(pc = "chain" /\ thrown' = {} /\ Len(stack') < Len(stack)) =>
            /\ Len(stack') = Len(stack) - 1
            /\ \A k \in 1..Len(stack') : stack'[k].pos = stack[k].pos]_vars

\* the first of three middleware is in the part after its continuation: the
\* other two and the handler have run and completed
C20_Witness ==
    /\ pc = "chain"
    /\ Len(middlewares) = 3
    /\ Len(stack) = 1
    /\ stack[1].pos = 1
    /\ stack[1].calls = 1
    /\ Len(started) = 4
    /\ repeats = 0
    /\ ~skipped
    /\ thrown = {}

\* ---------------------------------------------------------------------- C21
\* what the route table gives for the path of request r
IsoMatch(r) == findRoute(routes, "GET", isoReq[r].path)
IsoParams(r) == IF IsoMatch(r).found THEN IsoMatch(r).params ELSE EmptyParams

\* whether a Response was made in request r's own call, from what only
\* request r has put into its context
IsoOwn(r, resp) ==
    /\ resp.type = "Response"
    /\ resp.owner = r
    /\ resp.params \in {IsoParams(r), EmptyParams}
    /\ resp.status \in {DefaultStatus, IsoStatusOf(r), 404, 500}
    /\ resp.state \subseteq {r}

\* C21: with the steps of several requests interleaved, every request's
\* chain index, params, state, pending status and Response are those of that
\* request alone: the params are what the route table gives for its own path,
\* status and state hold only what its own code has set, and the Response it
\* gets was made in its own call from its own context.
C21_RequestIsolation ==
    \A r \in Requests :
        LET q == isoReq[r]
            ctx == isoCtx[r]
        IN  /\ q.pc = "idle" => (q = IsoIdleReq /\ ctx = IsoNewCtx)
            /\ q.pc # "idle" =>
                  /\ q.found = IsoMatch(r).found
                  /\ ctx.params = IsoParams(r)
                  /\ ctx.status \in {DefaultStatus, IsoStatusOf(r), 404, 500}
                  /\ ctx.state \subseteq {r}
                  /\ q.index <= q.mws
                  /\ q.depth <= q.mws + 1
                  /\ q.found =>
                        q.mws = Len(EffectiveMiddlewares(globalMiddlewares,
                                        IsoMatch(r).route.middlewares))
                  /\ q.response.type # "none" => IsoOwn(r, q.response)
                  /\ q.pc = "done" => IsoOwn(r, q.result)
                  /\ (q.pc = "done" /\ q.response.type # "none") =>
                        q.result \in {q.response} \cup
                            {IsoResponse(r, ctx, "handleError")}

\* request 1 has got its Response, with its own params, status and state,
\* while request 2, for another path, was in its chain, having set another
\* status and its own state entry
C21_Witness ==
    /\ isoReq[1].pc = "done"
    /\ isoReq[1].result.by = "json"
    /\ isoReq[1].result.status = IsoStatusOf(1)
    /\ isoReq[1].result.state = {1}
    /\ isoReq[1].result.params = IsoParams(1)
    /\ isoReq[2].pc = "out"
    /\ isoReq[2].path # isoReq[1].path
    /\ isoReq[2].found
    /\ isoCtx[2].status = IsoStatusOf(2)
    /\ isoCtx[2].state = {2}

\* C22: a request that was received is eventually completed, handleRequest
\* having returned once, whether no route matched, the chain ran to its end or
\* something was thrown, as long as every invocation of user code terminates
\* and invokes its continuation finitely often; the chain's index never
\* decreases, never exceeds the length of the middleware list, and every
\* continuation call made below that length advances it by one
C22_EventuallyCompleted ==
    /\ [](index <= Len(middlewares))
    /\ [][/\ index' >= index
          /\ (pc = "chain" /\ started' # started) =>
                (index' = index + 1 \/ index = Len(middlewares))]_vars
    /\ (pc # "setup") ~> (pc = "done" /\ returns = 1)

C22_Witness ==
    /\ pc = "done"
    /\ returns = 1
    /\ error.caught
    /\ Len(started) = Len(middlewares) + 1
    /\ repeats = MaxRepeat

\* the request was answered with handleError's default Response
DefaultErrorAnswer == pc = "done" /\ result.by = <<"handleError">>

\* C23 as stated: the default 500 Response carries the stack only if the
\* application was constructed with development: true
C23_StackOnlyExplicitOriginal ==
    (DefaultErrorAnswer /\ result.body.stack) => devConfig = "true"

\* C23: the default 500 Response has status 500 and carries the stack of the
\* thrown value exactly when that value is an Error and the application was
\* constructed without the development member or with development: true;
\* with development: false it carries the message without a stack
C23_StackUnlessDisabled ==
    DefaultErrorAnswer =>
        /\ result.status = 500
        /\ result.body.stack <=> (error.isError /\ devConfig # "false")
        /\ result.body.message = IF error.isError THEN <<error.message>>
                                  ELSE <<"Unknown error occurred">>

C23_Witness ==
    /\ DefaultErrorAnswer
    /\ devConfig = "absent"
    /\ error.isError
    /\ result.body.stack

\* C24: once the chain of a matched request has started, and for as long as
\* the request lasts, context.params is the complete params mapping of the
\* match, and no invocation starts before it is: a request still being set
\* up has started nothing
C24_ParamsBeforeChain ==
    /\ (pc = "setup") => started = <<>>
    /\ (pc # "setup" /\ matched.found) =>
          /\ context.params = matched.params
          /\ DOMAIN context.params = Range(pathToRegex(matched.route.path).keys)

C24_Witness ==
    /\ pc = "chain"
    /\ Len(started) = 1
    /\ Len(middlewares) > 0
    /\ DOMAIN matched.params # {}
    /\ context.params = matched.params

\* C25: the pending response of the chain is at every moment the Response
\* produced last by an invocation that has returned: a Response a middleware
\* returns, also after its continuation, replaces what the handler or a later
\* middleware produced, an invocation that returns nothing leaves it in
\* place, and a request whose chain ran to its end is answered with it
C25_LastResponseWins ==
    /\ (pc = "chain") => response = values.last
    /\ (pc = "done" /\ matched.found /\ ~error.caught) =>
          result = OrNoResponse(values.last)

C25_Witness ==
    /\ pc = "done"
    /\ ~error.caught
    /\ Len(middlewares) = 2
    /\ Len(started) = 3
    /\ repeats = 0
    /\ result.type = "Response"
    /\ result.pos = 2
    /\ result.calls = 1

\* the step in which the handler returns a value that is not a Response
\* (one that returned such a value before leaves the pending response as it
\* is when it returns nothing)
HandlerReturnsValue ==
    /\ pc = "chain"
    /\ Top(stack).pos = Len(middlewares) + 1
    /\ stack' = Pop(stack) \/ pc' = "done"
    /\ thrown' = thrown
    /\ values'.handler
    /\ ~values.handler \/ response' # response

\* C26: the JSON Response that wraps a value returned by the handler has the
\* status pending on the request's context at that moment, which is the one
\* set last with context.status by the code that ran so far and 200 if none
\* did, and it has every header pending on the context with its value
C26_WrapCarriesPending ==
    /\ []((pc = "chain" /\ context.status # DefaultStatus) =>
            context.status \in StatusCodes)
    /\ [][HandlerReturnsValue =>
            /\ response'.by = <<"json">>
            /\ response'.status = context.status
            /\ \A n \in DOMAIN context.headers :
                  /\ n \in DOMAIN response'.headers
                  /\ response'.headers[n] = context.headers[n]]_vars

C26_Witness ==
    /\ values.handler
    /\ response.by = <<"json">>
    /\ response.status \in StatusCodes
    /\ DOMAIN response.headers = HeaderNames \cup {"content-type"}
    /\ Len(started) = 3

\* C27: for one request at most one read of the request's body stream is
\* started, however many times context.body is evaluated and whether or not
\* the parse started by the first evaluation has completed
C27_ParsedAtMostOnce == bStream.reads <= 1

\* C28: with json() installed, a request with an application/json
\* Content-Type whose body is not well-formed JSON makes json() throw, so
\* that its continuation, and with it the handler, does not run
C28_MalformedBodyThrows ==
    (/\ bReq.json
     /\ bReq.ctype = "application/json"
     /\ bReq.raw = "malformed"
     /\ bJson.pc \notin {"idle", "await"}) => bJson.pc = "threw"

\* C29: every evaluation of context.body for a request whose body is well
\* formed for its Content-Type, the first one included, returns the parsed
\* body, never the placeholder _body starts with
C29_ReadReturnsParsed ==
    \A k \in 1..Len(bReads) :
        ParseResult(bReq.ctype, bReq.raw) # "reject" =>
            bReads[k] = ParseResult(bReq.ctype, bReq.raw)

LastOccurrence(name) ==
    CHOOSE i \in 1..Len(MKeys) :
        /\ MKeys[i] = name
        /\ \A j \in (i + 1)..Len(MKeys) : MKeys[j] # name

\* C40: on a successful match of a pattern that uses a parameter name more
\* than once, params has one key for that name, bound to what the last
\* parameter segment with that name captured
C40_LastOccurrenceWins ==
    (mDone /\ mResult.ok /\ ~DistinctKeys(MKeys)) =>
        /\ DOMAIN mResult.params = Range(MKeys)
        /\ Cardinality(DOMAIN mResult.params) < Len(MKeys)
        /\ \A name \in Range(MKeys) :
              mResult.params[name] = MGroups[LastOccurrence(name)]

C40_Witness ==
    /\ mDone
    /\ mResult.ok
    /\ mPattern = PatSameName
    /\ mPath = PathTwoSegments
    /\ MGroups = <<<<"a">>, <<"b">>>>
    /\ DOMAIN mResult.params = {<<"a">>}
    /\ mResult.params[<<"a">>] = <<"b">>

\* whether the k-th route of the application answers the latest lookup
Answers(k) ==
    /\ routes[k].method = lookup.method
    /\ matchPath(routes[k].path, lookup.path).ok

\* whether the k-th route of the application was copied from a router
Mounted(k) ==
    \E i \in 1..Len(mounts) :
        k \in (mounts[i].at + 1)..(mounts[i].at + Len(mounts[i].copied))

\* how many of the first k routes the application registered itself
OwnUpTo(k) == Cardinality({j \in 1..k : ~Mounted(j)})

\* C39: the routes copied by an addRouter call stand, in the router's order,
\* behind the routes the application had then and before those registered
\* later (by the application itself or by a later addRouter call), and the
\* application's lookup returns the first route in that order whose method
\* is the requested one and whose pattern matches: an earlier route of the
\* application wins over a mounted one, a mounted one over a later one
C39_MountTimeIsRegistrationTime ==
    /\ \A i \in 1..Len(mounts) :
          LET m == mounts[i]
              n == Len(m.copied)
          IN  /\ Len(routes) >= m.at + n
              /\ \A k \in 1..n : routes[m.at + k] = MountedRoute(m.prefix, m.copied[k])
              /\ i < Len(mounts) => mounts[i + 1].at >= m.at + n
    /\ \A k \in 1..Len(routes) :
          ~Mounted(k) => routes[k].handler = <<"h", OwnUpTo(k)>>
    /\ lookup.on = "app" =>
          /\ lookup.result.found <=> \E k \in 1..Len(routes) : Answers(k)
          /\ lookup.result.found =>
                /\ Answers(lookup.result.index)
                /\ lookup.result.route = routes[lookup.result.index]
                /\ \A k \in 1..(lookup.result.index - 1) : ~Answers(k)

\* a route of the application registered before the mount has won over a
\* mounted route and over a route registered after the mount
C39_Witness ==
    /\ Len(mounts) = 1
    /\ mounts[1].at = 1
    /\ Len(mounts[1].copied) > 0
    /\ Len(routes) > 1 + Len(mounts[1].copied)
    /\ lookup.on = "app"
    /\ lookup.result.found
    /\ lookup.result.index = 1
    /\ Answers(2)
    /\ Answers(Len(routes))

\* C38: a request that no route matches is answered with the not-found
\* Response at once: no global middleware, no route middleware, no handler
\* and not the custom error handler is invoked for it, and nothing is thrown
C38_UnmatchedRunsNothing ==
    (pc # "setup" /\ ~SomeRouteMatches(request.method, request.path)) =>
        /\ pc = "done"
        /\ ~matched.found
        /\ started = <<>>
        /\ stack = <<>>
        /\ thrown = {}
        /\ ~error.caught
        /\ ehOutcome = ""
        /\ returns = 1
        /\ result = handleNotFound(NewContext, request.method, request.path)

C38_Witness ==
    /\ pc = "done"
    /\ ~SomeRouteMatches(request.method, request.path)
    /\ Len(globalMiddlewares) = MaxGlobal
    /\ errorHandler = "set"
    /\ routes # <<>>
    /\ \E k \in 1..Len(routes) : routes[k].middlewares # <<>>
    /\ started = <<>>
    /\ result.status = 404

C34_RouterUseAppliesToAll ==
    \A k \in 1..Len(router.routes) :
        LET own == router.routes[k].middlewares
            n == Len(router.middlewares)
        IN  /\ Len(own) >= n
            /\ SubSeq(own, 1, n) = router.middlewares

\* the requests of a client key admitted to the continuation at a time from
\* t on and before t + windowMs
AdmittedWithin(k, t) ==
    Cardinality({n \in 1..Len(rlAdmits[k]) :
                    /\ rlAdmits[k][n] >= t
                    /\ rlAdmits[k][n] < t + rlCfg.windowMs})

\* C31: for every client key and every interval of length windowMs, at most
\* maxRequests requests of that key are admitted to the continuation
C31_SlidingWindow ==
    \A k \in ClientKeys, t \in 0..MaxNow :
        AdmittedWithin(k, t) <= rlCfg.maxRequests

\* C32: an entry of the limiter's map whose resetTime has passed is gone by
\* the end of the next invocation of the limiter, for whatever key, so that
\* the map holds no expired entry of a key that sends nothing any more
C32_ExpiredEntriesRemoved ==
    [][rlReq' # rlReq =>
         \A k \in ClientKeys :
             rlMap'[k].present => rlMap'[k].resetTime >= rlNow]_vars

\* C33: with errorHandler() as middleware and no onError option, a request
\* whose handler throws an Error with message m is answered with a Response
\* of status defaultStatus whose JSON body has error 'Internal Server Error'
\* and message m
C33_ErrorBecomesResponse ==
    (/\ ehmRun.pc = "done"
     /\ ehmOpts.onError = "none"
     /\ ehmRun.thrown.caught
     /\ ehmRun.thrown.isError) =>
        /\ ehmRun.result.type = "Response"
        /\ ehmRun.result.status = ehmOpts.defaultStatus
        /\ ehmRun.result.body.error = "Internal Server Error"
        /\ ehmRun.result.body.message = <<ehmRun.thrown.message>>

\* the routes of getRouteMetadata that belong to the method key
RoutesOf(key) ==
    {i \in 1..Len(getRouteMetadata) : getRouteMetadata[i].propertyKey = key}

\* C35: the route of a method with one HTTP-method decorator has, in the
\* middleware list of its metadata, the middleware declared with
\* @UseMiddleware on that method, whether the HTTP-method decorator was
\* applied before @UseMiddleware or after it
C35_UseMiddlewareEitherOrder ==
    \A key \in PropertyKeys :
        Cardinality(RoutesOf(key)) = 1 =>
            \A i \in RoutesOf(key) :
                Range(Declared(decUsed, key))
                    \subseteq Range(getRouteMetadata[i].middlewares)

\* C36: with cors() as global middleware every OPTIONS request is answered
\* by the middleware with status 204 and the CORS headers, and the handler
\* does not run; for a request of another method that reaches the
\* middleware, the middleware invokes its continuation once
C36_PreflightHandled ==
    corsRun.pc = "done" =>
        IF corsReq.method = "OPTIONS"
        THEN /\ corsRun.result.by = "cors"
             /\ corsRun.result.status = 204
             /\ "Access-Control-Allow-Methods" \in DOMAIN corsRun.result.headers
             /\ "Access-Control-Allow-Headers" \in DOMAIN corsRun.result.headers
             /\ ~corsRun.handlerRan
             /\ corsRun.calls = 0
        ELSE corsReq.method \in corsCfg.routeMethods => corsRun.calls = 1
====
